---- MODULE Spec2Model ----
(***************************************************************************)
(* A model of the skrills autoload core: the persisted state               *)
(* (crates/state/src/persistence.rs), the hook entry point emit_autoload   *)
(* (crates/server/src/emit.rs), the pin editor tui_flow                    *)
(* (crates/server/src/tui.rs), and the catalog loader and budget renderer  *)
(* that emit_autoload calls.                                               *)
(***************************************************************************)
EXTENDS Naturals, Integers, Sequences, FiniteSets, TLC

(***************************************************************************)
(* Skill names.  NameOrder lists them ascending, the order in which        *)
(* Vec<String>::sort and a name tie-break put them.                        *)
(***************************************************************************)
NameOrder == <<"a", "b", "c">>

Names == {NameOrder[i] : i \in 1..Len(NameOrder)}

NameIndex(n) == CHOOSE i \in 1..Len(NameOrder) : NameOrder[i] = n

Range(s) == {s[i] : i \in 1..Len(s)}

Min(a, b) == IF a <= b THEN a ELSE b

Max(a, b) == IF a >= b THEN a ELSE b

(* Vec::sort on names: the ascending sequence of the names of S. *)
RECURSIVE SortFrom(_, _)
SortFrom(S, i) ==
    IF i > Len(NameOrder) THEN <<>>
    ELSE IF NameOrder[i] \in S THEN <<NameOrder[i]>> \o SortFrom(S, i + 1)
    ELSE SortFrom(S, i + 1)

SortedNames(S) == SortFrom(S, 1)

(***************************************************************************)
(* Result<T>: Ok(v) or Err.                                                *)
(***************************************************************************)
Ok(v) == [ok |-> TRUE, val |-> v]

Err == [ok |-> FALSE]

unwrap_or_default(r, default) == IF r.ok THEN r.val ELSE default

(***************************************************************************)
(* A state file: absent, present with unparsable content, or present with  *)
(* a parsable JSON document (data).                                        *)
(***************************************************************************)
MissingFile(empty) == [kind |-> "missing", data |-> empty]

MalformedFile(empty) == [kind |-> "malformed", data |-> empty]

ValidFile(d) == [kind |-> "valid", data |-> d]

(***************************************************************************)
(* persistence.rs                                                          *)
(***************************************************************************)
HISTORY_LIMIT == 50

AUTO_PIN_WINDOW == 5

AUTO_PIN_MIN_HITS == 2

HistoryEntry(ts, skills) == [ts |-> ts, skills |-> skills]

(* list.drain(0..n): the list without its first n elements. *)
Drain(list, n) == SubSeq(list, n + 1, Len(list))

(* Every order in which the elements of a set can be listed. *)
Enumerations(S) ==
    {l \in [1..Cardinality(S) -> S] : \A i, j \in 1..Cardinality(S) : l[i] = l[j] => i = j}

(* load_pinned: the JSON list of the pinned file, collected into a set. *)
load_pinned(file) ==
    IF file.kind = "missing" THEN Ok({})
    ELSE IF file.kind = "malformed" THEN Err
    ELSE Ok(Range(file.data))

(* SKRILLS_PINNED: unset, or the pieces env.split(',') yields. *)
EnvUnset == [set |-> FALSE, items |-> <<>>]

EnvValue(items) == [set |-> TRUE, items |-> items]

(* str::trim on the pieces the model uses. *)
Trim(piece) ==
    CASE piece = " a" -> "a"
      [] piece = " b " -> "b"
      [] piece = " " -> ""
      [] OTHER -> piece

(* The names the loop over env.split(',') inserts. *)
EnvPins(env) ==
    IF env.set
    THEN {Trim(env.items[i]) : i \in 1..Len(env.items)} \ {""}
    ELSE {}

load_pinned_with_defaults(file, env) ==
    IF load_pinned(file).ok
    THEN Ok(load_pinned(file).val \cup EnvPins(env))
    ELSE Err

(* The contents the pinned file can have after save_pinned(pinned): the
   list holds the set's elements in the order HashSet::iter yields them. *)
save_pinned(pinned) == {ValidFile(l) : l \in Enumerations(pinned)}

load_history(file) ==
    IF file.kind = "missing" THEN Ok(<<>>)
    ELSE IF file.kind = "malformed" THEN Err
    ELSE IF Len(file.data) > HISTORY_LIMIT
         THEN Ok(Drain(file.data, Len(file.data) - HISTORY_LIMIT))
         ELSE Ok(file.data)

(* A mutant of save_history: keeps the oldest entries instead of the newest. *)
save_history_keep_oldest(history) ==
    IF Len(history) > HISTORY_LIMIT
    THEN ValidFile(SubSeq(history, 1, HISTORY_LIMIT))
    ELSE ValidFile(history)

(* The content of the history file after save_history(history). *)
save_history(history) ==
    IF Len(history) > HISTORY_LIMIT
    THEN ValidFile(Drain(history, Len(history) - HISTORY_LIMIT))
    ELSE ValidFile(history)

(* A mutant of WindowIndices: the whole history is counted. *)
WindowWhole(history) == 1..Len(history)

(* history.iter().rev().take(AUTO_PIN_WINDOW), as the set of indices taken. *)
WindowIndices(history) ==
    {i \in 1..Len(history) : i > Len(history) - AUTO_PIN_WINDOW}

(* The number of times skill occurs in one entry's list. *)
Occurrences(skills, skill) ==
    Cardinality({j \in 1..Len(skills) : skills[j] = skill})

RECURSIVE CountFrom(_, _, _)
CountFrom(history, i, skill) ==
    IF i > Len(history) THEN 0
    ELSE (IF i \in WindowIndices(history)
          THEN Occurrences(history[i].skills, skill) ELSE 0)
         + CountFrom(history, i + 1, skill)

(* counts[skill] once the loop over the window has run. *)
Counts(history, skill) == CountFrom(history, 1, skill)

(* A mutant of auto_pin_from_history: more than AUTO_PIN_MIN_HITS hits are asked. *)
auto_pin_strictly_more(history) ==
    {s \in UNION {Range(history[i].skills) : i \in WindowIndices(history)} :
        Counts(history, s) > AUTO_PIN_MIN_HITS}

auto_pin_from_history(history) ==
    {s \in UNION {Range(history[i].skills) : i \in WindowIndices(history)} :
        Counts(history, s) >= AUTO_PIN_MIN_HITS}

(* A mutant of load_auto_pin_flag: the file is read without the exists() check. *)
load_auto_pin_flag_unchecked(file) ==
    IF file.kind = "valid" THEN Ok(file.data) ELSE Err

load_auto_pin_flag(file) ==
    IF file.kind = "missing" THEN Ok(FALSE)
    ELSE IF file.kind = "malformed" THEN Err
    ELSE Ok(file.data)

(* The content of the flag file after save_auto_pin_flag(value). *)
save_auto_pin_flag(value) == ValidFile(value)

(***************************************************************************)
(* runtime.rs.  Option<T>: None or Some(v); an absent value carries the    *)
(* type's default so that both have the same shape.                        *)
(***************************************************************************)
None(default) == [some |-> FALSE, val |-> default]

Some(v) == [some |-> TRUE, val |-> v]

(* RuntimeOverrides: three Option<bool> fields. *)
RuntimeOverrides(mf, rml, mm) ==
    [manifest_first |-> mf, render_mode_log |-> rml, manifest_minimal |-> mm]

(* #[derive(Default)]: every field None. *)
RuntimeOverrides_default == RuntimeOverrides(None(FALSE), None(FALSE), None(FALSE))

(* A mutant of RuntimeOverrides_load: a file that cannot be parsed is an error. *)
RuntimeOverrides_load_strict(file) ==
    IF file.kind = "valid" THEN Ok(file.data)
    ELSE IF file.kind = "malformed" THEN Err
    ELSE Ok(RuntimeOverrides_default)

(* RuntimeOverrides::load: the parsed file, or the default when the file
   cannot be read or parsed. *)
RuntimeOverrides_load(file) ==
    IF file.kind = "valid" THEN Ok(file.data) ELSE Ok(RuntimeOverrides_default)

(* The content of the overrides file after self.save(). *)
RuntimeOverrides_save(self) == ValidFile(self)

(* RuntimeOverrides::manifest_first: the override, or else what
   env_manifest_first() returns. *)
manifest_first(self, env) ==
    IF self.manifest_first.some THEN self.manifest_first.val ELSE env.manifest_first

(* RuntimeOverrides::manifest_minimal: the override, or else what
   env_manifest_minimal() returns. *)
manifest_minimal(self, env) ==
    IF self.manifest_minimal.some THEN self.manifest_minimal.val ELSE env.manifest_minimal

(* A mutant of manifest_render_mode: only the environment default decides. *)
manifest_render_mode_from_env(runtime, env) ==
    IF env.manifest_first THEN "ManifestOnly" ELSE "Dual"

(* emit.rs 44-53: manifest_render_mode. *)
manifest_render_mode(runtime, env) ==
    IF manifest_first(runtime, env) THEN "ManifestOnly" ELSE "Dual"

(* The argument env_auto_pin_default hands to env_auto_pin:
   load_auto_pin_flag().unwrap_or(false). *)
auto_pin_flag_or_false(file) == unwrap_or_default(load_auto_pin_flag(file), FALSE)

(* A mutant of runtime_overrides_cached: the file is loaded at every call. *)
runtime_overrides_reloaded(cache, file) ==
    IF RuntimeOverrides_load(file).ok
    THEN [cache |-> Some(RuntimeOverrides_load(file).val),
          val |-> RuntimeOverrides_load(file).val]
    ELSE [cache |-> cache, val |-> RuntimeOverrides_default]

(* A mutant of runtime_overrides_cached: only a value parsed from a file is
   cached. *)
runtime_overrides_cached_if_found(cache, file) ==
    IF cache.some THEN [cache |-> cache, val |-> cache.val]
    ELSE IF file.kind = "valid"
         THEN [cache |-> Some(file.data), val |-> file.data]
         ELSE [cache |-> cache, val |-> RuntimeOverrides_default]

(* runtime_overrides_cached with the lock held: the cached value, or the
   loaded one, which is then cached.  cache is the Option behind the Mutex;
   the result is the cache afterwards and the value returned. *)
runtime_overrides_cached(cache, file) ==
    IF cache.some THEN [cache |-> cache, val |-> cache.val]
    ELSE IF RuntimeOverrides_load(file).ok
         THEN [cache |-> Some(RuntimeOverrides_load(file).val),
               val |-> RuntimeOverrides_load(file).val]
         ELSE [cache |-> cache, val |-> RuntimeOverrides_default]

(***************************************************************************)
(* Catalog Loader (discover_skills / collect_skills).  A raw match is a    *)
(* SKILL.md found under the root of one source; raw is the list of matches *)
(* in walk order.                                                          *)
(***************************************************************************)
priority_labels == <<"codex", "mirror", "claude">>

Sources == {priority_labels[i] : i \in 1..Len(priority_labels)}

SkillMeta(name, source) == [name |-> name, source |-> source]

(* A mutant of PriorityRank: the position is emitted as position() returns
   it, counted from 0. *)
PriorityRankFromZero(label) ==
    IF \E i \in 1..Len(priority_labels) : priority_labels[i] = label
    THEN (CHOOSE i \in 1..Len(priority_labels) : priority_labels[i] = label) - 1
    ELSE Len(priority_labels) + 1

(* priority_order.iter().position(|p| p == label).map(|i| i + 1)
   .unwrap_or(priority_order.len() + 1) *)
PriorityRank(label) ==
    IF \E i \in 1..Len(priority_labels) : priority_labels[i] = label
    THEN CHOOSE i \in 1..Len(priority_labels) : priority_labels[i] = label
    ELSE Len(priority_labels) + 1

(* Whether match i of raw is the one kept for its name. *)
IsWinner(raw, i) ==
    \A j \in 1..Len(raw) :
        (j # i /\ raw[j].name = raw[i].name) =>
            PriorityRank(raw[i].source) < PriorityRank(raw[j].source)

RECURSIVE KeepFrom(_, _, _)
KeepFrom(raw, i, winners) ==
    IF i > Len(raw) THEN <<>>
    ELSE IF IsWinner(raw, i) = winners
         THEN <<raw[i]>> \o KeepFrom(raw, i + 1, winners)
         ELSE KeepFrom(raw, i + 1, winners)

(* A mutant of discover_skills: the first match found is kept. *)
discover_first_found(raw) ==
    LET first(i) == \A j \in 1..Len(raw) : raw[j].name = raw[i].name => i <= j
        RECURSIVE keep(_, _)
        keep(i, w) == IF i > Len(raw) THEN <<>>
                      ELSE IF first(i) = w THEN <<raw[i]>> \o keep(i + 1, w)
                      ELSE keep(i + 1, w)
    IN [skills |-> keep(1, TRUE), duplicates |-> keep(1, FALSE)]

discover_skills(raw) ==
    [skills |-> KeepFrom(raw, 1, TRUE), duplicates |-> KeepFrom(raw, 1, FALSE)]

(***************************************************************************)
(* Relevance Engine: the verdict of one skill.  relevant is the set of     *)
(* names whose similarity to the prompt reaches the threshold (the         *)
(* similarity function is an external capability).                         *)
(***************************************************************************)
score(name, prompt, relevant, preload_terms) ==
    IF name \in preload_terms THEN "PreloadMatch"
    ELSE IF prompt # "" /\ name \in relevant THEN "PromptMatch"
    ELSE "NoMatch"

(***************************************************************************)
(* Budget Renderer (render_autoload).  opts carries max_bytes, prompt,     *)
(* relevant, preload_terms, pinned, render_mode and minimal_manifest.      *)
(***************************************************************************)
RenderModes == {"Dual", "ManifestOnly", "ContentOnly"}

ManifestBytes == 2

MinimalManifestBytes == 1

(* The size of a skill's body text. *)
BodyBytes(name) == NameIndex(name)

Verdict(s, opts) == score(s.name, opts.prompt, opts.relevant, opts.preload_terms)

IsGuaranteed(s, opts) ==
    s.name \in opts.pinned \/ Verdict(s, opts) = "PreloadMatch"

ManifestEntry(s, opts) ==
    IF opts.minimal_manifest
    THEN [kind |-> "manifest", name |-> s.name, source |-> "", rank |-> 0]
    ELSE [kind |-> "manifest", name |-> s.name, source |-> s.source,
          rank |-> PriorityRank(s.source)]

BodyText(s) == [kind |-> "body", name |-> s.name, source |-> "", rank |-> 0]

ItemBytes(item) ==
    IF item.kind = "body" THEN BodyBytes(item.name)
    ELSE IF item.source = "" THEN MinimalManifestBytes
    ELSE ManifestBytes

HasManifest(opts) == opts.render_mode \in {"Dual", "ManifestOnly"}

HasBodies(opts) == opts.render_mode \in {"Dual", "ContentOnly"}

(* The bytes one included skill adds to the payload. *)
SkillBytes(s, opts) ==
    (IF HasManifest(opts) THEN ItemBytes(ManifestEntry(s, opts)) ELSE 0)
    + (IF HasBodies(opts) THEN ItemBytes(BodyText(s)) ELSE 0)

MatchRank(s, opts) == IF Verdict(s, opts) = "PromptMatch" THEN 0 ELSE 1

(* A mutant of Before: no tie-break by name. *)
BeforeNoTieBreak(x, y, opts) ==
    \/ MatchRank(x, opts) < MatchRank(y, opts)
    \/ /\ MatchRank(x, opts) = MatchRank(y, opts)
       /\ PriorityRank(x.source) < PriorityRank(y.source)

(* The candidate order: PromptMatch before NoMatch, then source priority,
   then name ascending. *)
Before(x, y, opts) ==
    \/ MatchRank(x, opts) < MatchRank(y, opts)
    \/ /\ MatchRank(x, opts) = MatchRank(y, opts)
       /\ PriorityRank(x.source) < PriorityRank(y.source)
    \/ /\ MatchRank(x, opts) = MatchRank(y, opts)
       /\ PriorityRank(x.source) = PriorityRank(y.source)
       /\ NameIndex(x.name) < NameIndex(y.name)

(* x put into the ordered list, after every element that is not after it. *)
RECURSIVE Insert(_, _, _)
Insert(sorted, x, opts) ==
    IF sorted = <<>> THEN <<x>>
    ELSE IF Before(x, sorted[1], opts) THEN <<x>> \o sorted
    ELSE <<sorted[1]>> \o Insert(Tail(sorted), x, opts)

RECURSIVE OrderFrom(_, _, _)
OrderFrom(list, i, opts) ==
    IF i = 0 THEN <<>>
    ELSE Insert(OrderFrom(list, i - 1, opts), list[i], opts)

Ordered(list, opts) == OrderFrom(list, Len(list), opts)

RECURSIVE Partition(_, _, _, _)
Partition(skills, i, opts, guaranteed) ==
    IF i > Len(skills) THEN <<>>
    ELSE IF IsGuaranteed(skills[i], opts) = guaranteed
         THEN <<skills[i]>> \o Partition(skills, i + 1, opts, guaranteed)
         ELSE Partition(skills, i + 1, opts, guaranteed)

RECURSIVE TotalBytes(_, _)
TotalBytes(list, opts) ==
    IF list = <<>> THEN 0
    ELSE SkillBytes(list[1], opts) + TotalBytes(Tail(list), opts)

(* A mutant of Walk: the guaranteed bytes are not counted against the budget. *)
RECURSIVE WalkFresh(_, _, _)
WalkFresh(candidates, total, opts) ==
    LET RECURSIVE go(_, _)
        go(cs, t) ==
            IF cs = <<>> THEN <<>>
            ELSE IF t + SkillBytes(cs[1], opts) <= opts.max_bytes
                 THEN <<cs[1]>> \o go(Tail(cs), t + SkillBytes(cs[1], opts))
                 ELSE <<>>
    IN go(candidates, 0)

(* Step 4: the ordered candidates accepted while the running total stays
   within the budget; the walk stops at the first that would exceed it. *)
RECURSIVE Walk(_, _, _)
Walk(candidates, total, opts) ==
    IF candidates = <<>> THEN <<>>
    ELSE IF total + SkillBytes(candidates[1], opts) <= opts.max_bytes
         THEN <<candidates[1]>>
              \o Walk(Tail(candidates), total + SkillBytes(candidates[1], opts), opts)
         ELSE <<>>

(* A mutant of Guaranteed: guaranteed skills are cut to the budget too. *)
GuaranteedWithinBudget(skills, opts) ==
    Walk(Ordered(Partition(skills, 1, opts, TRUE), opts), 0, opts)

(* Step 3: every guaranteed skill, whatever the budget. *)
Guaranteed(skills, opts) == Ordered(Partition(skills, 1, opts, TRUE), opts)

Included(skills, opts) ==
    LET g == Guaranteed(skills, opts) IN
    g \o Walk(Ordered(Partition(skills, 1, opts, FALSE), opts), TotalBytes(g, opts), opts)

RECURSIVE Manifest(_, _)
Manifest(list, opts) ==
    IF list = <<>> THEN <<>>
    ELSE <<ManifestEntry(list[1], opts)>> \o Manifest(Tail(list), opts)

RECURSIVE Bodies(_)
Bodies(list) ==
    IF list = <<>> THEN <<>> ELSE <<BodyText(list[1])>> \o Bodies(Tail(list))

render_autoload(skills, opts) ==
    LET inc == Included(skills, opts) IN
    [payload |-> (IF HasManifest(opts) THEN Manifest(inc, opts) ELSE <<>>)
                 \o (IF HasBodies(opts) THEN Bodies(inc) ELSE <<>>),
     matched |-> {inc[i].name : i \in 1..Len(inc)}]

(***************************************************************************)
(* Mirror sync (sync_from_claude).  A tree maps each relative path to the  *)
(* content of the file there, or to Absent.                                *)
(***************************************************************************)
Absent == "absent"

SkillFiles == {"x/SKILL.md", "y/SKILL.md"}

SyncPaths == SkillFiles \cup {"x/README.md"}

FileContents == {"v1", "v2"}

EmptyTree == [p \in SyncPaths |-> Absent]

(* The fixed skill-file convention: a file named SKILL.md. *)
is_skill_file(path) == path \in SkillFiles

(* rel_path.parent(): the directory a relative path lies in. *)
ParentName(path) == IF path = "y/SKILL.md" THEN "y" ELSE "x"

(* The content hash of a file: equal contents, equal hashes, and no two
   contents of the model collide. *)
hash_file(content) == IF content = "v1" THEN "h1" ELSE "h2"

SyncReport(copied, skipped, copied_names) ==
    [copied |-> copied, skipped |-> skipped, copied_names |-> copied_names]

SyncReport_default == SyncReport(0, 0, <<>>)

(* A mutant of should_copy: only a missing destination is copied. *)
should_copy_if_absent(dest, src) == dest = Absent

(* sync.rs 52-56: dest.exists() ? hash_file(dest) != hash_file(src) : true *)
should_copy(dest, src) ==
    IF dest # Absent THEN hash_file(dest) # hash_file(src) ELSE TRUE

(* sync.rs 43-71: the body of the loop for one entry of the walk.  acc is
   the mirror tree and the report so far. *)
SyncEntry(acc, path, files) ==
    IF ~is_skill_file(path) THEN acc
    ELSE IF should_copy(acc.mirror[path], files[path])
    THEN [mirror |-> [acc.mirror EXCEPT ![path] = files[path]],
          report |-> SyncReport(acc.report.copied + 1, acc.report.skipped,
                                Append(acc.report.copied_names, ParentName(path)))]
    ELSE [mirror |-> acc.mirror,
          report |-> SyncReport(acc.report.copied, acc.report.skipped + 1,
                                acc.report.copied_names)]

(* The loop over the first n entries of the walk. *)
RECURSIVE SyncLoop(_, _, _, _)
SyncLoop(entries, n, files, mirror) ==
    IF n = 0 THEN [mirror |-> mirror, report |-> SyncReport_default]
    ELSE SyncEntry(SyncLoop(entries, n - 1, files, mirror), entries[n], files)

(* What WalkDir yields once filter_map(|e| e.ok()) dropped the entries it
   could not read: the files present outside the unreadable paths. *)
Walked(root) == {p \in SyncPaths : root.files[p] # Absent /\ p \notin root.unreadable}

(* sync.rs 32-74.  entries is the walk in the order WalkDir produced it;
   failing is the index of the entry at which create_dir_all, hash_file or
   fs::copy returned an error (0: none did), which ends the call with the
   entries before it already processed. *)
sync_from_claude(root, mirror, entries, failing) ==
    IF ~root.exists THEN [result |-> Ok(SyncReport_default), mirror |-> mirror]
    ELSE IF failing = 0
    THEN LET done == SyncLoop(entries, Len(entries), root.files, mirror)
         IN [result |-> Ok(done.report), mirror |-> done.mirror]
    ELSE [result |-> Err,
          mirror |-> SyncLoop(entries, failing - 1, root.files, mirror).mirror]

(***************************************************************************)
(* SyncOrchestrator (crates/sync).  An agent holds a set of commands, a    *)
(* set of MCP servers and its preferences; the orchestrator is generic in  *)
(* the two adapters and only sees their read_* and write_* operations.     *)
(***************************************************************************)
Agent(commands, mcp_servers, preferences) ==
    [commands |-> commands, mcp_servers |-> mcp_servers, preferences |-> preferences]

Preferences(model) == [model |-> model]

Preferences_default == Preferences(None("m"))

Agent_empty == Agent({}, {}, Preferences_default)

SyncParams(dry_run, sync_commands, sync_mcp_servers, sync_preferences) ==
    [dry_run |-> dry_run, sync_commands |-> sync_commands,
     sync_mcp_servers |-> sync_mcp_servers, sync_preferences |-> sync_preferences]

SyncParams_default == SyncParams(FALSE, TRUE, TRUE, TRUE)

WriteReport(written) == [written |-> written]

WriteReport_default == WriteReport(0)

(* SyncReport::new() of crates/sync. *)
SyncReport_new ==
    [commands |-> WriteReport_default, mcp_servers |-> WriteReport_default,
     preferences |-> WriteReport_default, success |-> FALSE]

AdapterOps ==
    {"read_commands", "write_commands", "read_mcp_servers", "write_mcp_servers",
     "read_preferences", "write_preferences"}

WriteOps == {"write_commands", "write_mcp_servers", "write_preferences"}

(* What a write_* of the target adapter leaves in one field of the target
   and reports.  writes = FALSE is the adapter of adapters/codex.rs, which
   stores nothing and reports WriteReport::default(); writes = TRUE is an
   adapter that stores every item handed to it and counts it. *)
AdapterWrite(field, holding, items, writes) ==
    IF ~writes THEN [holding |-> holding, report |-> WriteReport_default]
    ELSE IF field = "preferences"
    THEN [holding |-> IF items.model.some THEN items ELSE holding,
          report |-> WriteReport(IF items.model.some THEN 1 ELSE 0)]
    ELSE [holding |-> holding \cup items, report |-> WriteReport(Cardinality(items))]

(* What the dry-run branch of one section stores in report.<field>.written. *)
DryRunCount(field, items) ==
    IF field = "preferences" THEN (IF items.model.some THEN 1 ELSE 0)
    ELSE Cardinality(items)

(* A mutant of SyncSection: the target is written in a dry run too. *)
SyncSectionAlwaysWrites(acc, field, enabled, source, params, failing, writes) ==
    IF acc.failed \/ ~enabled THEN acc
    ELSE LET read == "read_" \o field
             write == "write_" \o field
             items == source[field]
             w == AdapterWrite(field, acc.target[field], items, writes)
         IN IF failing = read
            THEN [acc EXCEPT !.calls = Append(@, read), !.failed = TRUE]
            ELSE IF failing = write
            THEN [acc EXCEPT !.calls = @ \o <<read, write>>, !.failed = TRUE]
            ELSE [acc EXCEPT !.calls = @ \o <<read, write>>,
                             !.target[field] = w.holding,
                             !.report[field] = w.report]

(* A mutant of SyncSection: a section runs whatever its flag says. *)
SyncSectionIgnoringFlag(acc, field, enabled, source, params, failing, writes) ==
    IF acc.failed THEN acc
    ELSE LET read == "read_" \o field
             write == "write_" \o field
             items == source[field]
             w == AdapterWrite(field, acc.target[field], items, writes)
         IN IF failing = read
            THEN [acc EXCEPT !.calls = Append(@, read), !.failed = TRUE]
            ELSE IF params.dry_run
            THEN [acc EXCEPT !.calls = Append(@, read),
                             !.report[field] = WriteReport(DryRunCount(field, items))]
            ELSE IF failing = write
            THEN [acc EXCEPT !.calls = @ \o <<read, write>>, !.failed = TRUE]
            ELSE [acc EXCEPT !.calls = @ \o <<read, write>>,
                             !.target[field] = w.holding,
                             !.report[field] = w.report]

(* orchestrator.rs 86-93, 96-103, 106-116: one "if params.sync_<field>"
   section.  acc is the state of the call so far: the adapter operations
   called, the target, the report, and whether a `?` already returned. *)
SyncSection(acc, field, enabled, source, params, failing, writes) ==
    IF acc.failed \/ ~enabled THEN acc
    ELSE LET read == "read_" \o field
             write == "write_" \o field
             items == source[field]
             w == AdapterWrite(field, acc.target[field], items, writes)
         IN IF failing = read
            THEN [acc EXCEPT !.calls = Append(@, read), !.failed = TRUE]
            ELSE IF params.dry_run
            THEN [acc EXCEPT !.calls = Append(@, read),
                             !.report[field] = WriteReport(DryRunCount(field, items))]
            ELSE IF failing = write
            THEN [acc EXCEPT !.calls = @ \o <<read, write>>, !.failed = TRUE]
            ELSE [acc EXCEPT !.calls = @ \o <<read, write>>,
                             !.target[field] = w.holding,
                             !.report[field] = w.report]

(* A mutant of sync: a call that fails leaves the target as it found it. *)
sync_all_or_nothing(source, target, params, failing, writes) ==
    LET start == [calls |-> <<>>, target |-> target, report |-> SyncReport_new,
                  failed |-> FALSE]
        c == SyncSection(start, "commands", params.sync_commands,
                         source, params, failing, writes)
        m == SyncSection(c, "mcp_servers", params.sync_mcp_servers,
                         source, params, failing, writes)
        p == SyncSection(m, "preferences", params.sync_preferences,
                         source, params, failing, writes)
    IN [calls |-> p.calls, target |-> IF p.failed THEN target ELSE p.target,
        result |-> IF p.failed THEN Err
                   ELSE Ok([p.report EXCEPT !.success = TRUE])]

(* orchestrator.rs 82-122: SyncOrchestrator::sync.  failing is the adapter
   operation that returns an error when called ("none": no operation
   fails). *)
sync(source, target, params, failing, writes) ==
    LET start == [calls |-> <<>>, target |-> target, report |-> SyncReport_new,
                  failed |-> FALSE]
        c == SyncSection(start, "commands", params.sync_commands,
                         source, params, failing, writes)
        m == SyncSection(c, "mcp_servers", params.sync_mcp_servers,
                         source, params, failing, writes)
        p == SyncSection(m, "preferences", params.sync_preferences,
                         source, params, failing, writes)
    IN [calls |-> p.calls, target |-> p.target,
        result |-> IF p.failed THEN Err
                   ELSE Ok([p.report EXCEPT !.success = TRUE])]

(***************************************************************************)
(* AGENTS.md (sync_agents_with_skills).  A text is a sequence of tokens:   *)
(* the two markers, a newline, the rendered <available_skills> element,    *)
(* the default template, and a piece of the user's own text.               *)
(***************************************************************************)
AGENTS_SECTION_START == "START"

AGENTS_SECTION_END == "END"

AGENTS_TEXT == <<"template">>

Newline == "\n"

(* str::find: the index of the first occurrence, None when there is none. *)
Find(text, token) ==
    IF \E i \in 1..Len(text) : text[i] = token
    THEN Some(CHOOSE i \in 1..Len(text) :
                 text[i] = token /\ \A j \in 1..(i - 1) : text[j] # token)
    ELSE None(0)

(* sync.rs 124-129: format!("{start}\n{xml}\n{end}\n") *)
Section(xml_text) ==
    <<AGENTS_SECTION_START, Newline, xml_text, Newline, AGENTS_SECTION_END, Newline>>

(* sync.rs 122-149.  The result is how the call ended and the file it left:
   existing.replace_range(start..end_idx, ..) panics when start > end_idx,
   before anything is written. *)
sync_agents_with_skills(file, xml_text) ==
    LET section == Section(xml_text)
        existing == file.text
        start == Find(existing, AGENTS_SECTION_START)
        end == Find(existing, AGENTS_SECTION_END)
        written(content) ==
            [outcome |-> "ok", file |-> [exists |-> TRUE, text |-> content]]
    IN IF ~file.exists
       THEN written(AGENTS_TEXT \o <<Newline, Newline>> \o section)
       ELSE IF start.some /\ end.some
       THEN IF start.val > end.val
            THEN [outcome |-> "panic", file |-> file]
            ELSE written(SubSeq(existing, 1, start.val - 1) \o section
                         \o SubSeq(existing, end.val + 1, Len(existing)))
       ELSE written(existing \o <<Newline, Newline>> \o section)

(***************************************************************************)
(* State.                                                                  *)
(***************************************************************************)
VARIABLES
    historyFile,  \* ~/.codex/skills-history.json
    now,          \* the clock read for HistoryEntry.ts
    mem,          \* a Vec<HistoryEntry> held by a caller of the history API
    supplied,     \* the vector handed to the last save_history call
    appends,      \* entries pushed so far
    returned,     \* the value auto_pin_from_history returned
    applied,      \* whether auto_pin_from_history has been applied to mem
    raw,          \* the raw matches of one discovery pass, in walk order
    catalog,      \* what that pass returned: skills and duplicates
    discovered,   \* whether the pass has run
    rin,          \* the arguments of one render_autoload call
    rout,         \* its result
    rendered,     \* whether the call has been made
    pinnedFile,   \* ~/.codex/skills-pinned.json
    skrills_pinned, \* the environment variable SKRILLS_PINNED
    pc,           \* per emit_autoload process: idle, rendered or failed
    inv,          \* per emit_autoload process: the locals of its invocation
    deselected,   \* the pins the user unticked in the last tui_flow
    ticked,       \* the names the user newly ticked in the last tui_flow
    session,      \* a server session: its load_pinned_with_defaults calls and the last result
    autoPinFile,  \* ~/.codex/skills-autopin.json
    overridesFile, \* the file at runtime_overrides_path()
    RUNTIME_CACHE, \* the process-wide Mutex<Option<RuntimeOverrides>>
    got,          \* the calls made to the state API so far and what the last returned
    env_defaults, \* what env_manifest_first() and env_manifest_minimal() return
    claudeRoot,   \* the tree under ~/.claude that sync_from_claude walks
    mirrorRoot,   \* the tree under the mirror root it copies into
    syncReport,   \* the sync_from_claude calls so far and what the last returned
    xmlSkills,    \* the skills handed to render_available_skills_xml
    xml,          \* the <skill> elements it emitted
    sourceAgent,  \* what the source adapter of a SyncOrchestrator reads
    targetAgent,  \* what its target adapter holds
    orchReport,   \* the last SyncOrchestrator::sync call: adapter calls and result
    agentsFile,   \* AGENTS.md: whether it exists, and its text
    agentsSync    \* the sync_agents_with_skills calls so far and how the last ended

fileVars == <<historyFile, now>>

histVars == <<mem, supplied, appends>>

pinVars == <<returned, applied>>

discVars == <<raw, catalog, discovered>>

renderVars == <<rin, rout, rendered>>

emitVars == <<pinnedFile, skrills_pinned, pc, inv, deselected, ticked, session>>

storeVars == <<autoPinFile, overridesFile, RUNTIME_CACHE, got, env_defaults>>

mirrorVars == <<claudeRoot, mirrorRoot, syncReport>>

xmlVars == <<xmlSkills, xml>>

orchVars == <<sourceAgent, targetAgent, orchReport>>

agentsVars == <<agentsFile, agentsSync>>

syncVars == <<mirrorVars, xmlVars, orchVars, agentsVars>>

vars == <<fileVars, histVars, pinVars, discVars, renderVars, emitVars, storeVars,
          syncVars>>

Procs == {1, 2}

NoInvocation ==
    [history |-> <<>>, loaded |-> 0, manual_pins |-> {}, auto_pin |-> FALSE,
     effective_pins |-> {}, catalog |-> {}, render_mode |-> "Dual", matched |-> {}]

NoOpts ==
    [max_bytes |-> 0, prompt |-> "", relevant |-> {}, preload_terms |-> {},
     pinned |-> {}, render_mode |-> "Dual", minimal_manifest |-> FALSE]

NoSession == [loads |-> 0, pins |-> Ok({})]

NoCall == [calls |-> 0, fn |-> "none", seen |-> MissingFile(<<>>), result |-> Ok({})]

EnvDefaults(first, minimal) == [manifest_first |-> first, manifest_minimal |-> minimal]

IdleStores ==
    /\ env_defaults = EnvDefaults(FALSE, FALSE)
    /\ autoPinFile = MissingFile(FALSE)
    /\ overridesFile = MissingFile(RuntimeOverrides_default)
    /\ RUNTIME_CACHE = None(RuntimeOverrides_default)
    /\ got = NoCall

NoSync == [runs |-> 0, found |-> EmptyTree, walked |-> {}, result |-> Ok(SyncReport_default)]

NoXml == [rendered |-> FALSE, elements |-> <<>>]

NoOrchestratorRun ==
    [runs |-> 0, params |-> SyncParams_default, stores |-> FALSE, calls |-> <<>>,
     result |-> Ok(SyncReport_new)]

IdleMirror ==
    /\ claudeRoot = [exists |-> FALSE, files |-> EmptyTree, unreadable |-> {}]
    /\ mirrorRoot = EmptyTree
    /\ syncReport = NoSync

IdleXml == xmlSkills = <<>> /\ xml = NoXml

IdleOrchestrator ==
    /\ sourceAgent = Agent_empty
    /\ targetAgent = Agent_empty
    /\ orchReport = NoOrchestratorRun

NoAgentsFile == [exists |-> FALSE, text |-> <<>>]

AgentsFile(text) == [exists |-> TRUE, text |-> text]

NoAgentsSync == [calls |-> 0, outcome |-> "none", xml |-> "none"]

IdleAgents == agentsFile = NoAgentsFile /\ agentsSync = NoAgentsSync

IdleSync == IdleMirror /\ IdleXml /\ IdleOrchestrator /\ IdleAgents

IdleFiles == historyFile = MissingFile(<<>>) /\ now = 0

IdleHistory == mem = <<>> /\ supplied = <<>> /\ appends = 0

IdleAutoPin == returned = {} /\ applied = FALSE

IdleDiscover ==
    /\ raw = <<>>
    /\ catalog = [skills |-> <<>>, duplicates |-> <<>>]
    /\ discovered = FALSE

IdleRender ==
    /\ rin = [skills |-> <<>>, opts |-> NoOpts]
    /\ rout = [payload |-> <<>>, matched |-> {}]
    /\ rendered = FALSE

IdleEmit ==
    /\ pinnedFile = MissingFile(<<>>)
    /\ skrills_pinned = EnvUnset
    /\ pc = [p \in Procs |-> "idle"]
    /\ inv = [p \in Procs |-> NoInvocation]
    /\ deselected = {}
    /\ ticked = {}
    /\ session = NoSession

(***************************************************************************)
(* The history API on its own: a caller loads, pushes entries and saves.   *)
(***************************************************************************)
MaxAppends == 3

RECURSIVE EmptyRuns(_)
EmptyRuns(n) ==
    IF n = 0 THEN <<>> ELSE Append(EmptyRuns(n - 1), HistoryEntry(n, <<>>))

(* The file after HISTORY_LIMIT - 1 invocations that matched nothing. *)
InitHistory ==
    /\ IdleStores /\ IdleSync
    /\ historyFile = ValidFile(EmptyRuns(HISTORY_LIMIT - 1))
    /\ now = HISTORY_LIMIT
    /\ IdleHistory /\ IdleAutoPin /\ IdleDiscover /\ IdleRender /\ IdleEmit

HLoad ==
    /\ load_history(historyFile).ok
    /\ mem' = load_history(historyFile).val
    /\ UNCHANGED <<syncVars, storeVars, fileVars, supplied, appends, pinVars, discVars, renderVars, emitVars>>

HPush ==
    /\ appends < MaxAppends
    /\ \E skills \in {<<>>, <<"a">>} :
          mem' = Append(mem, HistoryEntry(now, skills))
    /\ now' = now + 1
    /\ appends' = appends + 1
    /\ UNCHANGED <<syncVars, storeVars, historyFile, supplied, pinVars, discVars, renderVars, emitVars>>

HSave ==
    /\ historyFile' = save_history(mem)
    /\ supplied' = mem
    /\ UNCHANGED <<syncVars, storeVars, now, mem, appends, pinVars, discVars, renderVars, emitVars>>

NextHistory == HLoad \/ HPush \/ HSave

SpecHistory == InitHistory /\ [][NextHistory]_vars

(***************************************************************************)
(* auto_pin_from_history on its own, over every history of bounded length  *)
(* whose entries are lists a render can record (sorted, duplicate-free).   *)
(***************************************************************************)
MaxHistLen == 6

PinNames == {"a", "b"}

PinLists == {SortedNames(S) : S \in SUBSET PinNames}

RECURSIVE HistoriesOfLen(_)
HistoriesOfLen(n) ==
    IF n = 0 THEN {<<>>}
    ELSE {Append(h, HistoryEntry(n, l)) : h \in HistoriesOfLen(n - 1), l \in PinLists}

InitAutoPin ==
    /\ IdleStores /\ IdleSync
    /\ IdleFiles
    /\ mem \in UNION {HistoriesOfLen(n) : n \in 0..MaxHistLen}
    /\ supplied = <<>>
    /\ appends = 0
    /\ IdleAutoPin /\ IdleDiscover /\ IdleRender /\ IdleEmit

ApplyAutoPin ==
    /\ ~applied
    /\ returned' = auto_pin_from_history(mem)
    /\ applied' = TRUE
    /\ UNCHANGED <<syncVars, storeVars, fileVars, histVars, discVars, renderVars, emitVars>>

NextAutoPin == ApplyAutoPin

SpecAutoPin == InitAutoPin /\ [][NextAutoPin]_vars

(***************************************************************************)
(* auto_pin_from_history over longer histories, with entries older than    *)
(* the window.                                                             *)
(***************************************************************************)
MaxOldLen == 3

WindowLists == {<<>>, <<"a">>, <<"a", "b">>}

RECURSIVE LongHistoriesOfLen(_)
LongHistoriesOfLen(n) ==
    IF n = 0 THEN {<<>>}
    ELSE {Append(h, HistoryEntry(n, l)) : h \in LongHistoriesOfLen(n - 1), l \in WindowLists}

InitWindow ==
    /\ IdleStores /\ IdleSync
    /\ IdleFiles
    /\ mem \in UNION {LongHistoriesOfLen(n) : n \in 0..(AUTO_PIN_WINDOW + MaxOldLen)}
    /\ supplied = <<>>
    /\ appends = 0
    /\ IdleAutoPin /\ IdleDiscover /\ IdleRender /\ IdleEmit

SpecWindow == InitWindow /\ [][NextAutoPin]_vars

(***************************************************************************)
(* One discovery pass over every walk of a pool of raw matches.            *)
(***************************************************************************)
MaxWalkLen == 4

WalkNames == {"a", "b"}

MatchPool == {SkillMeta(n, src) : n \in WalkNames, src \in Sources}

(* The walks: lists of distinct raw matches (a root holds a path once). *)
RECURSIVE WalksOfLen(_)
WalksOfLen(n) ==
    IF n = 0 THEN {<<>>}
    ELSE {Append(w, m) : w \in WalksOfLen(n - 1), m \in MatchPool}

RawWalks ==
    {w \in UNION {WalksOfLen(n) : n \in 0..MaxWalkLen} :
        \A i, j \in 1..Len(w) : w[i] = w[j] => i = j}

InitDiscover ==
    /\ IdleStores /\ IdleSync
    /\ IdleFiles /\ IdleHistory /\ IdleAutoPin /\ IdleDiscover /\ IdleRender /\ IdleEmit

DiscoverCall ==
    /\ ~discovered
    /\ \E w \in RawWalks :
          /\ raw' = w
          /\ catalog' = discover_skills(w)
    /\ discovered' = TRUE
    /\ UNCHANGED <<syncVars, storeVars, fileVars, histVars, pinVars, renderVars, emitVars>>

NextDiscover == DiscoverCall

SpecDiscover == InitDiscover /\ [][NextDiscover]_vars

(***************************************************************************)
(* One render_autoload call over every catalog, pin set, scoring outcome   *)
(* and option value of the bounds.                                         *)
(***************************************************************************)
MaxBytes == 5

RenderSources == {"codex", "claude"}

(* The catalogs: at most one skill per name, listed by name. *)
Catalogs ==
    UNION {{[i \in 1..Cardinality(S) |->
                SkillMeta(SortedNames(S)[i], f[SortedNames(S)[i]])] :
            f \in [S -> RenderSources]} : S \in SUBSET Names}

CatalogNames(skills) == {skills[i].name : i \in 1..Len(skills)}

RenderOptions(skills) ==
    {o \in [max_bytes : 0..MaxBytes, prompt : {"", "p"},
            relevant : SUBSET CatalogNames(skills),
            preload_terms : SUBSET CatalogNames(skills),
            pinned : SUBSET PinNames, render_mode : RenderModes,
            minimal_manifest : BOOLEAN] :
        /\ o.prompt = "" => o.relevant = {}
        /\ o.render_mode = "ContentOnly" => ~o.minimal_manifest}

InitRender ==
    /\ IdleStores /\ IdleSync
    /\ IdleFiles /\ IdleHistory /\ IdleAutoPin /\ IdleDiscover /\ IdleEmit
    /\ rin \in {[skills |-> skills, opts |-> NoOpts] : skills \in Catalogs}
    /\ rout = [payload |-> <<>>, matched |-> {}]
    /\ rendered = FALSE

RenderCall ==
    /\ ~rendered
    /\ \E opts \in RenderOptions(rin.skills) :
          /\ rin' = [rin EXCEPT !.opts = opts]
          /\ rout' = render_autoload(rin.skills, opts)
    /\ rendered' = TRUE
    /\ UNCHANGED <<syncVars, storeVars, fileVars, histVars, pinVars, discVars, emitVars>>

NextRender == RenderCall

SpecRender == InitRender /\ [][NextRender]_vars

(***************************************************************************)
(* emit_autoload (emit.rs) and tui_flow (tui.rs).  Each hook invocation is *)
(* a process of its own: it reads the persisted state and renders          *)
(* (EmitBegin), then appends to the history it read and rewrites the file  *)
(* (EmitFinish).  Two invocations may be in flight at once.                *)
(***************************************************************************)
MaxRuns == 3

(* The snapshots of the skill roots a discovery pass can meet. *)
FsWalks ==
    {<<>>,
     <<SkillMeta("a", "codex")>>,
     <<SkillMeta("a", "claude"), SkillMeta("b", "mirror"), SkillMeta("a", "codex")>>}

EnvValues == {EnvUnset, EnvValue(<<" b ", "">>)}

(* The arguments and settings one invocation can run with. *)
EmitOptions(skills, effective_pins, runtime, env) ==
    {[max_bytes |-> mb, prompt |-> pr,
      relevant |-> (IF pr = "" THEN {} ELSE CatalogNames(skills)),
      preload_terms |-> pl \cap CatalogNames(skills),
      pinned |-> effective_pins,
      render_mode |-> manifest_render_mode(runtime, env),
      minimal_manifest |-> manifest_minimal(runtime, env)] :
        mb \in {0, MaxBytes}, pr \in {"", "p"}, pl \in {{}, {"b"}}}

(* A mutant of EmitLoaded: the auto-pins are computed and not handed to the
   renderer. *)
EmitLoadedManualPins(walk, auto_pin) ==
    LET skills == discover_skills(walk).skills
        manual_pins == unwrap_or_default(load_pinned(pinnedFile), {})
        history == unwrap_or_default(load_history(historyFile), <<>>)
    IN [skills |-> skills, manual_pins |-> manual_pins, history |-> history,
        auto_pin |-> auto_pin, effective_pins |-> manual_pins]

(* emit.rs 78-92: the catalog, the pins and the history of one invocation. *)
EmitLoaded(walk, auto_pin) ==
    LET skills == discover_skills(walk).skills
        manual_pins == unwrap_or_default(load_pinned(pinnedFile), {})
        history == unwrap_or_default(load_history(historyFile), <<>>)
        auto_pins == IF auto_pin THEN auto_pin_from_history(history) ELSE {}
    IN [skills |-> skills, manual_pins |-> manual_pins, history |-> history,
        auto_pin |-> auto_pin, effective_pins |-> manual_pins \cup auto_pins]

(* A mutant of SaveBase: the history is read again just before it is saved. *)
SaveBaseReloaded(loaded, file) == unwrap_or_default(load_history(file), <<>>)

(* emit.rs 135: the vector the new entry is pushed on is the one loaded at
   the start of the invocation, whatever the file holds by now. *)
SaveBase(loaded, file) == loaded

(* A mutant of PushedHistory: nothing is recorded when nothing matched. *)
PushedHistoryIfMatched(history, matched, ts) ==
    IF matched = {} THEN history
    ELSE Append(history, HistoryEntry(ts, SortedNames(matched)))

(* emit.rs 136-141: matched collected into a vector, sorted and pushed. *)
PushedHistory(history, matched, ts) ==
    Append(history, HistoryEntry(ts, SortedNames(matched)))

InFlight == {p \in Procs : pc[p] = "rendered"}

Init ==
    /\ IdleStores /\ IdleSync
    /\ IdleFiles /\ IdleHistory /\ IdleAutoPin /\ IdleDiscover /\ IdleRender
    /\ pinnedFile = MissingFile(<<>>)
    /\ skrills_pinned \in EnvValues
    /\ pc = [p \in Procs |-> "idle"]
    /\ inv = [p \in Procs |-> NoInvocation]
    /\ deselected = {}
    /\ ticked = {}
    /\ session = NoSession

EmitBegin(p) ==
    /\ pc[p] # "rendered"
    /\ now + Cardinality(InFlight) < MaxRuns
    /\ \E walk \in FsWalks, auto_pin \in BOOLEAN :
          LET l == EmitLoaded(walk, auto_pin)
              runtime == runtime_overrides_cached(RUNTIME_CACHE, overridesFile)
          IN /\ RUNTIME_CACHE' = runtime.cache
             /\ \/ \E opts \in EmitOptions(l.skills, l.effective_pins,
                                            runtime.val, env_defaults) :
                      /\ pc' = [pc EXCEPT ![p] = "rendered"]
                      /\ inv' = [inv EXCEPT ![p] =
                             [history |-> l.history, loaded |-> now,
                              manual_pins |-> l.manual_pins, auto_pin |-> auto_pin,
                              effective_pins |-> l.effective_pins,
                              catalog |-> CatalogNames(l.skills),
                              render_mode |-> opts.render_mode,
                              matched |-> render_autoload(l.skills, opts).matched]]
                \/ \* render_autoload(..)? returned an error: nothing is saved
                   /\ pc' = [pc EXCEPT ![p] = "failed"]
                   /\ inv' = [inv EXCEPT ![p] = NoInvocation]
    /\ UNCHANGED <<syncVars, autoPinFile, overridesFile, got, env_defaults, fileVars,
                   histVars, pinVars, discVars, renderVars,
                   pinnedFile, skrills_pinned, deselected, ticked, session>>

(* A mutant of EmitFinish: the pins the render used are saved as the pinned
   list. *)
EmitFinishPersistingPins(p) ==
    /\ pc[p] = "rendered"
    /\ historyFile' = save_history(
           PushedHistory(SaveBase(inv[p].history, historyFile), inv[p].matched, now))
    /\ pinnedFile' \in save_pinned(inv[p].effective_pins)
    /\ now' = now + 1
    /\ pc' = [pc EXCEPT ![p] = "idle"]
    /\ inv' = [inv EXCEPT ![p] = NoInvocation]
    /\ UNCHANGED <<syncVars, storeVars, histVars, pinVars, discVars, renderVars,
                   skrills_pinned, deselected, ticked, session>>

(* A mutant of EmitFinish: a history file that could not be read is left as
   it is. *)
EmitFinishKeepingUnreadable(p) ==
    /\ pc[p] = "rendered"
    /\ historyFile' =
          IF historyFile.kind = "malformed" THEN historyFile
          ELSE save_history(
                 PushedHistory(SaveBase(inv[p].history, historyFile), inv[p].matched, now))
    /\ now' = now + 1
    /\ pc' = [pc EXCEPT ![p] = "idle"]
    /\ inv' = [inv EXCEPT ![p] = NoInvocation]
    /\ UNCHANGED <<syncVars, storeVars, histVars, pinVars, discVars, renderVars,
                   pinnedFile, skrills_pinned, deselected, ticked, session>>

EmitFinish(p) ==
    /\ pc[p] = "rendered"
    /\ historyFile' = save_history(
           PushedHistory(SaveBase(inv[p].history, historyFile), inv[p].matched, now))
    /\ now' = now + 1
    /\ pc' = [pc EXCEPT ![p] = "idle"]
    /\ inv' = [inv EXCEPT ![p] = NoInvocation]
    /\ UNCHANGED <<syncVars, storeVars, histVars, pinVars, discVars, renderVars,
                   pinnedFile, skrills_pinned, deselected, ticked, session>>

(* A mutant of TuiPinned: the ticks are preset from the pins merged with
   SKRILLS_PINNED. *)
TuiPinnedWithDefaults(file, env) ==
    unwrap_or_default(load_pinned_with_defaults(file, env), {})

(* tui.rs 48: the pins the ticks are preset from. *)
TuiPinned(file, env) == unwrap_or_default(load_pinned(file), {})

(* tui.rs 42-73: the catalog is listed with the persisted pins ticked, the
   user ticks and unticks, and the ticked names are saved.  The names the
   user unticked are observed; the names newly ticked are observed when
   observe_ticked is set. *)
TuiSession(observe_ticked) ==
    \E walk \in FsWalks :
        LET skills == discover_skills(walk).skills
            pinned == TuiPinned(pinnedFile, skrills_pinned)
            defaults == {n \in CatalogNames(skills) : n \in pinned}
        IN /\ skills # <<>>
           /\ \E new_pins \in SUBSET CatalogNames(skills) :
                 /\ pinnedFile' \in save_pinned(new_pins)
                 /\ deselected' = defaults \ new_pins
                 /\ ticked' = IF observe_ticked THEN new_pins \ defaults ELSE ticked
           /\ UNCHANGED <<syncVars, storeVars, fileVars, histVars, pinVars, discVars, renderVars,
                          skrills_pinned, pc, inv, session>>

TuiFlow == TuiSession(FALSE)

(* Hook invocations one after the other, and the pin editor. *)
Next == EmitBegin(1) \/ EmitFinish(1) \/ TuiFlow

Spec == Init /\ [][Next]_vars

(* Hook invocations of two processes at once. *)
NextRace == \E p \in Procs : EmitBegin(p) \/ EmitFinish(p)

SpecRace == Init /\ [][NextRace]_vars

(***************************************************************************)
(* Invocations one after the other on a history that already holds up to   *)
(* AUTO_PIN_WINDOW entries, so that the hits of a skill leave the window   *)
(* while new entries enter it.                                             *)
(***************************************************************************)
InitSustain ==
    /\ IdleStores /\ IdleSync
    /\ IdleHistory /\ IdleAutoPin /\ IdleDiscover /\ IdleRender
    /\ historyFile \in {ValidFile(h) :
                          h \in UNION {LongHistoriesOfLen(n) : n \in 0..AUTO_PIN_WINDOW}}
    /\ now = MaxRuns - 2
    /\ pinnedFile = MissingFile(<<>>)
    /\ skrills_pinned = EnvUnset
    /\ pc = [p \in Procs |-> "idle"]
    /\ inv = [p \in Procs |-> NoInvocation]
    /\ deselected = {}
    /\ ticked = {}
    /\ session = NoSession

NextSustain == EmitBegin(1) \/ EmitFinish(1)

SpecSustain == InitSustain /\ [][NextSustain]_vars

(***************************************************************************)
(* The pin store on its own: a session that loads the pins merged with     *)
(* SKRILLS_PINNED (load_pinned_with_defaults), and the pin editor.         *)
(***************************************************************************)
MaxLoads == 2

PinEnvValues ==
    {EnvUnset, EnvValue(<<" b ", "">>), EnvValue(<<"a", " b ">>), EnvValue(<<" ">>)}

PinFiles ==
    {MissingFile(<<>>), MalformedFile(<<>>), ValidFile(<<>>), ValidFile(<<"a">>),
     ValidFile(<<"c", "a">>)}

InitPins ==
    /\ IdleStores /\ IdleSync
    /\ IdleFiles /\ IdleHistory /\ IdleAutoPin /\ IdleDiscover /\ IdleRender
    /\ pinnedFile \in PinFiles
    /\ skrills_pinned \in PinEnvValues
    /\ pc = [p \in Procs |-> "idle"]
    /\ inv = [p \in Procs |-> NoInvocation]
    /\ deselected = {}
    /\ ticked = {}
    /\ session = NoSession

(* One call of load_pinned_with_defaults. *)
LoadPinnedWithDefaults ==
    /\ session.loads < MaxLoads
    /\ session' = [loads |-> session.loads + 1,
                   pins |-> load_pinned_with_defaults(pinnedFile, skrills_pinned)]
    /\ UNCHANGED <<syncVars, storeVars, fileVars, histVars, pinVars, discVars, renderVars,
                   pinnedFile, skrills_pinned, pc, inv, deselected, ticked>>

TuiFlowObserved == TuiSession(TRUE)

NextPins == LoadPinnedWithDefaults \/ TuiFlowObserved

SpecPins == InitPins /\ [][NextPins]_vars

(***************************************************************************)
(* The persisted stores and their consumers: the load functions of         *)
(* persistence.rs, env_auto_pin_default and RuntimeOverrides::load of      *)
(* runtime.rs, and one emit_autoload invocation, over files that are       *)
(* absent, unparsable or valid.                                            *)
(***************************************************************************)
MaxCalls == 2

StorePinFiles == {MissingFile(<<>>), MalformedFile(<<>>), ValidFile(<<"b">>)}

StoreHistoryFiles ==
    {MissingFile(<<>>), MalformedFile(<<>>), ValidFile(<<>>),
     ValidFile(<<HistoryEntry(0, <<"a">>), HistoryEntry(1, <<"a">>)>>)}

AutoPinFiles ==
    {MissingFile(FALSE), MalformedFile(FALSE), ValidFile(TRUE), ValidFile(FALSE)}

OverrideValues ==
    {RuntimeOverrides_default,
     RuntimeOverrides(Some(TRUE), None(FALSE), Some(FALSE)),
     RuntimeOverrides(Some(FALSE), Some(TRUE), Some(TRUE))}

OverrideFiles ==
    {MissingFile(RuntimeOverrides_default), MalformedFile(RuntimeOverrides_default)}
    \cup {ValidFile(o) : o \in OverrideValues}

InitStores ==
    /\ IdleSync
    /\ env_defaults = EnvDefaults(FALSE, FALSE)
    /\ historyFile \in StoreHistoryFiles
    /\ now = MaxRuns - 1
    /\ IdleHistory /\ IdleAutoPin /\ IdleDiscover /\ IdleRender
    /\ pinnedFile \in StorePinFiles
    /\ skrills_pinned = EnvUnset
    /\ pc = [p \in Procs |-> "idle"]
    /\ inv = [p \in Procs |-> NoInvocation]
    /\ deselected = {}
    /\ ticked = {}
    /\ session = NoSession
    /\ autoPinFile \in AutoPinFiles
    /\ overridesFile \in OverrideFiles
    /\ RUNTIME_CACHE = None(RuntimeOverrides_default)
    /\ got = NoCall

(* One call of a function of the state API: got records the function, the
   file it found and its result. *)
Called(fn, file, result) ==
    /\ got.calls < MaxCalls
    /\ got' = [calls |-> got.calls + 1, fn |-> fn, seen |-> file, result |-> result]

CallLoadPinned ==
    /\ Called("load_pinned", pinnedFile, load_pinned(pinnedFile))
    /\ UNCHANGED <<syncVars, fileVars, histVars, pinVars, discVars, renderVars, emitVars,
                   autoPinFile, overridesFile, RUNTIME_CACHE, env_defaults>>

CallLoadHistory ==
    /\ Called("load_history", historyFile, load_history(historyFile))
    /\ UNCHANGED <<syncVars, fileVars, histVars, pinVars, discVars, renderVars, emitVars,
                   autoPinFile, overridesFile, RUNTIME_CACHE, env_defaults>>

CallLoadAutoPinFlag ==
    /\ Called("load_auto_pin_flag", autoPinFile, load_auto_pin_flag(autoPinFile))
    /\ UNCHANGED <<syncVars, fileVars, histVars, pinVars, discVars, renderVars, emitVars,
                   autoPinFile, overridesFile, RUNTIME_CACHE, env_defaults>>

(* env_auto_pin_default: the result recorded is the default it hands to
   env_auto_pin. *)
CallEnvAutoPinDefault ==
    /\ Called("env_auto_pin_default", autoPinFile, Ok(auto_pin_flag_or_false(autoPinFile)))
    /\ UNCHANGED <<syncVars, fileVars, histVars, pinVars, discVars, renderVars, emitVars,
                   autoPinFile, overridesFile, RUNTIME_CACHE, env_defaults>>

CallRuntimeLoad ==
    /\ Called("RuntimeOverrides_load", overridesFile, RuntimeOverrides_load(overridesFile))
    /\ UNCHANGED <<syncVars, fileVars, histVars, pinVars, discVars, renderVars, emitVars,
                   autoPinFile, overridesFile, RUNTIME_CACHE, env_defaults>>

NextStores ==
    \/ CallLoadPinned \/ CallLoadHistory \/ CallLoadAutoPinFlag
    \/ CallEnvAutoPinDefault \/ CallRuntimeLoad
    \/ EmitBegin(1) \/ EmitFinish(1)

SpecStores == InitStores /\ [][NextStores]_vars

(***************************************************************************)
(* The runtime-override cache of one process, while the overrides file is  *)
(* saved and edited.                                                       *)
(***************************************************************************)
InitRuntime ==
    /\ IdleSync
    /\ env_defaults = EnvDefaults(FALSE, FALSE)
    /\ IdleFiles /\ IdleHistory /\ IdleAutoPin /\ IdleDiscover /\ IdleRender /\ IdleEmit
    /\ autoPinFile = MissingFile(FALSE)
    /\ overridesFile \in OverrideFiles
    /\ RUNTIME_CACHE = None(RuntimeOverrides_default)
    /\ got = [NoCall EXCEPT !.seen = MissingFile(RuntimeOverrides_default),
                            !.result = Ok(RuntimeOverrides_default)]

CallRuntimeOverridesCached ==
    LET r == runtime_overrides_cached(RUNTIME_CACHE, overridesFile) IN
    /\ Called("runtime_overrides_cached", overridesFile, Ok(r.val))
    /\ RUNTIME_CACHE' = r.cache
    /\ UNCHANGED <<syncVars, fileVars, histVars, pinVars, discVars, renderVars, emitVars,
                   autoPinFile, overridesFile, env_defaults>>

(* RuntimeOverrides::save of some value. *)
SaveOverrides ==
    /\ \E self \in OverrideValues : overridesFile' = RuntimeOverrides_save(self)
    /\ UNCHANGED <<syncVars, fileVars, histVars, pinVars, discVars, renderVars, emitVars,
                   autoPinFile, RUNTIME_CACHE, got, env_defaults>>

(* The file is edited or removed from outside the process. *)
EditOverrides ==
    /\ overridesFile' \in OverrideFiles
    /\ UNCHANGED <<syncVars, fileVars, histVars, pinVars, discVars, renderVars, emitVars,
                   autoPinFile, RUNTIME_CACHE, got, env_defaults>>

reset_runtime_cache_for_tests ==
    /\ RUNTIME_CACHE' = None(RuntimeOverrides_default)
    /\ UNCHANGED <<syncVars, fileVars, histVars, pinVars, discVars, renderVars, emitVars,
                   autoPinFile, overridesFile, got, env_defaults>>

NextRuntime ==
    \/ CallRuntimeOverridesCached \/ CallRuntimeLoad \/ SaveOverrides \/ EditOverrides
    \/ reset_runtime_cache_for_tests

SpecRuntime == InitRuntime /\ [][NextRuntime]_vars

(***************************************************************************)
(* Invocations under every overrides file and environment default, in one  *)
(* process (the cache is kept) or in a new one (the cache starts empty),   *)
(* while the overrides file is edited.                                     *)
(***************************************************************************)
InitMode ==
    /\ IdleSync
    /\ historyFile = MissingFile(<<>>) /\ now = MaxRuns - 2
    /\ IdleHistory /\ IdleAutoPin /\ IdleDiscover /\ IdleRender /\ IdleEmit
    /\ env_defaults \in {EnvDefaults(f, m) : f \in BOOLEAN, m \in BOOLEAN}
    /\ autoPinFile = MissingFile(FALSE)
    /\ overridesFile \in OverrideFiles
    /\ RUNTIME_CACHE = None(RuntimeOverrides_default)
    /\ got = NoCall

NextMode ==
    \/ EmitBegin(1) \/ EmitFinish(1) \/ EditOverrides \/ reset_runtime_cache_for_tests

SpecMode == InitMode /\ [][NextMode]_vars

(***************************************************************************)
(* Mirror sync: the user edits the tree under ~/.claude and runs           *)
(* sync_from_claude, which may stop at an I/O error.                       *)
(***************************************************************************)
MaxSyncs == 2

(* The source trees: a root that does not exist, or one with a README and
   any skill files, where the directory of y may be unreadable. *)
ClaudeRoots ==
    {[exists |-> FALSE, files |-> EmptyTree, unreadable |-> {}]}
    \cup {[exists |-> TRUE,
           files |-> [p \in SyncPaths |->
                         IF p = "x/SKILL.md" THEN x
                         ELSE IF p = "y/SKILL.md" THEN y ELSE "v1"],
           unreadable |-> u] :
             x \in FileContents \cup {Absent}, y \in FileContents \cup {Absent},
             u \in {{}, {"y/SKILL.md"}}}

InitMirror ==
    /\ IdleStores /\ IdleXml /\ IdleOrchestrator /\ IdleAgents
    /\ IdleFiles /\ IdleHistory /\ IdleAutoPin /\ IdleDiscover /\ IdleRender /\ IdleEmit
    /\ claudeRoot \in ClaudeRoots
    /\ mirrorRoot = EmptyTree
    /\ syncReport = NoSync

(* The entries at which an I/O operation of the loop can fail: the loop
   performs none for an entry that is not a skill file. *)
FailingPoints(entries) == {0} \cup {i \in 1..Len(entries) : is_skill_file(entries[i])}

SyncFromClaude ==
    /\ syncReport.runs < MaxSyncs
    /\ \E entries \in Enumerations(Walked(claudeRoot)) :
         \E failing \in FailingPoints(entries) :
            LET r == sync_from_claude(claudeRoot, mirrorRoot, entries, failing)
            IN /\ mirrorRoot' = r.mirror
               /\ syncReport' = [runs |-> syncReport.runs + 1, found |-> claudeRoot.files,
                                 walked |-> Range(entries), result |-> r.result]
    /\ UNCHANGED <<claudeRoot, xmlVars, orchVars, agentsVars, storeVars, fileVars, histVars, pinVars,
                   discVars, renderVars, emitVars>>

(* The user writes, removes or protects files under ~/.claude. *)
EditClaude ==
    /\ claudeRoot' \in ClaudeRoots \ {claudeRoot}
    /\ UNCHANGED <<mirrorRoot, syncReport, xmlVars, orchVars, agentsVars, storeVars, fileVars,
                   histVars, pinVars, discVars, renderVars, emitVars>>

NextMirror == SyncFromClaude \/ EditClaude

SpecMirror == InitMirror /\ [][NextMirror]_vars

(***************************************************************************)
(* The <available_skills> section (render_available_skills_xml): one       *)
(* <skill> element per skill, carrying its priority_rank.                  *)
(***************************************************************************)
MaxXmlLen == 2

(* The labels a SkillSource can have: those of the priority list, and one
   outside it. *)
SourceLabels == Sources \cup {"extra"}

RECURSIVE XmlSkillsOfLen(_)
XmlSkillsOfLen(n) ==
    IF n = 0 THEN {<<>>}
    ELSE {Append(l, SkillMeta(name, label)) :
            l \in XmlSkillsOfLen(n - 1), name \in {"a", "b"}, label \in SourceLabels}

(* sync.rs 90-103: the <skill> element of each skill, in the order given. *)
render_available_skills_xml(skills) ==
    [i \in 1..Len(skills) |->
        [name |-> skills[i].name, source |-> skills[i].source,
         priority_rank |-> PriorityRank(skills[i].source)]]

InitXml ==
    /\ IdleStores /\ IdleMirror /\ IdleOrchestrator /\ IdleAgents
    /\ IdleFiles /\ IdleHistory /\ IdleAutoPin /\ IdleDiscover /\ IdleRender /\ IdleEmit
    /\ xmlSkills \in UNION {XmlSkillsOfLen(n) : n \in 0..MaxXmlLen}
    /\ xml = NoXml

RenderXml ==
    /\ ~xml.rendered
    /\ xml' = [rendered |-> TRUE, elements |-> render_available_skills_xml(xmlSkills)]
    /\ UNCHANGED <<xmlSkills, mirrorVars, orchVars, agentsVars, storeVars, fileVars, histVars,
                   pinVars, discVars, renderVars, emitVars>>

NextXml == RenderXml

SpecXml == InitXml /\ [][NextXml]_vars

(***************************************************************************)
(* SyncOrchestrator::sync called on a source and a target agent, under     *)
(* every SyncParams, with any one adapter operation failing.               *)
(***************************************************************************)
MaxOrchestratorRuns == 2

SourceAgents ==
    {Agent(c, m, Preferences(model)) :
        c \in {{}, {"c1"}, {"c1", "c2"}}, m \in {{}, {"s1"}},
        model \in {None("m"), Some("m")}}

AllSyncParams ==
    {SyncParams(d, c, m, p) : d \in BOOLEAN, c \in BOOLEAN, m \in BOOLEAN, p \in BOOLEAN}

InitOrchestrator ==
    /\ IdleStores /\ IdleMirror /\ IdleXml /\ IdleAgents
    /\ IdleFiles /\ IdleHistory /\ IdleAutoPin /\ IdleDiscover /\ IdleRender /\ IdleEmit
    /\ sourceAgent \in SourceAgents
    /\ targetAgent = Agent_empty
    /\ orchReport = NoOrchestratorRun

OrchestratorSync ==
    /\ orchReport.runs < MaxOrchestratorRuns
    /\ \E params \in AllSyncParams, failing \in AdapterOps \cup {"none"}, writes \in BOOLEAN :
          LET r == sync(sourceAgent, targetAgent, params, failing, writes)
          IN /\ targetAgent' = r.target
             /\ orchReport' = [runs |-> orchReport.runs + 1, params |-> params,
                               stores |-> writes, calls |-> r.calls,
                               result |-> r.result]
    /\ UNCHANGED <<sourceAgent, mirrorVars, xmlVars, agentsVars, storeVars, fileVars, histVars,
                   pinVars, discVars, renderVars, emitVars>>

NextOrchestrator == OrchestratorSync

SpecOrchestrator == InitOrchestrator /\ [][NextOrchestrator]_vars

(***************************************************************************)
(* sync_agents_with_skills called again and again on an AGENTS.md that is  *)
(* missing or holds some text of the user, with or without markers.        *)
(***************************************************************************)
MaxAgentsSyncs == 3

MaxAgentsLen == 3

RECURSIVE AgentsTextsOfLen(_)
AgentsTextsOfLen(n) ==
    IF n = 0 THEN {<<>>}
    ELSE {Append(t, token) :
            t \in AgentsTextsOfLen(n - 1),
            token \in {"# Title", AGENTS_SECTION_START, AGENTS_SECTION_END}}

InitAgents ==
    /\ IdleStores /\ IdleMirror /\ IdleXml /\ IdleOrchestrator
    /\ IdleFiles /\ IdleHistory /\ IdleAutoPin /\ IdleDiscover /\ IdleRender /\ IdleEmit
    /\ agentsFile \in {NoAgentsFile}
                      \cup {AgentsFile(t) : t \in UNION {AgentsTextsOfLen(n) : n \in 0..MaxAgentsLen}}
    /\ agentsSync = NoAgentsSync

(* One call; the rendered element differs from call to call (it carries
   generated_at_utc and the skills of the moment). *)
SyncAgents ==
    /\ agentsSync.calls < MaxAgentsSyncs
    /\ \E xml_text \in {"<available_skills 1>", "<available_skills 2>"} :
          LET r == sync_agents_with_skills(agentsFile, xml_text)
          IN /\ agentsFile' = r.file
             /\ agentsSync' = [calls |-> agentsSync.calls + 1, outcome |-> r.outcome,
                               xml |-> xml_text]
    /\ UNCHANGED <<mirrorVars, xmlVars, orchVars, storeVars, fileVars, histVars,
                   pinVars, discVars, renderVars, emitVars>>

NextAgents == SyncAgents

SpecAgents == InitAgents /\ [][NextAgents]_vars

(***************************************************************************)
(* C1. History FIFO cap: whatever vector was handed to save_history, the   *)
(* persisted list (and what load_history then returns) holds at most       *)
(* HISTORY_LIMIT entries; it is the whole vector when that has at most     *)
(* HISTORY_LIMIT entries, and otherwise exactly its HISTORY_LIMIT most     *)
(* recent entries, in their original order.                                *)
(***************************************************************************)
C1_HistoryFifoCap ==
    LET l == load_history(historyFile) IN
    /\ historyFile.kind = "valid"
    /\ Len(historyFile.data) <= HISTORY_LIMIT
    /\ l.ok /\ l.val = historyFile.data
    /\ Len(supplied) > 0 =>
         LET n == Len(supplied)
             k == Min(n, HISTORY_LIMIT) IN
         /\ Len(historyFile.data) = k
         /\ \A i \in 1..k : historyFile.data[i] = supplied[n - k + i]

(* More than HISTORY_LIMIT entries were supplied and the oldest were dropped. *)
C1_Witness ==
    /\ Len(supplied) > HISTORY_LIMIT + 1
    /\ Len(historyFile.data) = HISTORY_LIMIT
    /\ historyFile.data[HISTORY_LIMIT] = supplied[Len(supplied)]
    /\ historyFile.data[1] # supplied[1]

(***************************************************************************)
(* C2. Auto-pin threshold: a name that appears in exactly                  *)
(* AUTO_PIN_MIN_HITS - 1 of the last AUTO_PIN_WINDOW entries is never      *)
(* returned by auto_pin_from_history, and a name that appears in exactly   *)
(* AUTO_PIN_MIN_HITS of them always is.                                    *)
(***************************************************************************)
EntriesWith(history, skill) ==
    Cardinality({i \in 1..Len(history) :
        /\ Len(history) - i < AUTO_PIN_WINDOW
        /\ \E j \in 1..Len(history[i].skills) : history[i].skills[j] = skill})

C2_AutoPinThreshold ==
    applied =>
        \A s \in Names :
            /\ EntriesWith(mem, s) = AUTO_PIN_MIN_HITS - 1 => s \notin returned
            /\ EntriesWith(mem, s) = AUTO_PIN_MIN_HITS => s \in returned

(* Both cases at once, with an older entry outside the window. *)
C2_Witness ==
    /\ applied
    /\ Len(mem) > AUTO_PIN_WINDOW
    /\ EntriesWith(mem, "a") = AUTO_PIN_MIN_HITS - 1
    /\ EntriesWith(mem, "b") = AUTO_PIN_MIN_HITS
    /\ "a" \notin returned
    /\ "b" \in returned

(***************************************************************************)
(* C3. Guaranteed inclusion: after a render, every catalog skill whose     *)
(* name is in the pin set or whose verdict is PreloadMatch is in           *)
(* matchedNames and in the payload, whatever the byte budget (also one     *)
(* smaller than the guaranteed content, and zero).                         *)
(***************************************************************************)
InPayload(name) == \E k \in 1..Len(rout.payload) : rout.payload[k].name = name

C3_GuaranteedInclusion ==
    rendered =>
        \A i \in 1..Len(rin.skills) :
            LET n == rin.skills[i].name IN
            (\/ n \in rin.opts.pinned
             \/ score(n, rin.opts.prompt, rin.opts.relevant, rin.opts.preload_terms)
                    = "PreloadMatch")
            => (n \in rout.matched /\ InPayload(n))

(* A budget of zero, one pinned skill and one preloaded skill, both kept. *)
C3_Witness ==
    /\ rendered
    /\ rin.opts.max_bytes = 0
    /\ \E i, j \in 1..Len(rin.skills) :
          /\ rin.skills[i].name \in rin.opts.pinned
          /\ rin.skills[i].name \notin rin.opts.preload_terms
          /\ rin.skills[j].name \in rin.opts.preload_terms
          /\ rin.skills[j].name \notin rin.opts.pinned
          /\ {rin.skills[i].name, rin.skills[j].name} \subseteq rout.matched

(***************************************************************************)
(* C4. Budget respected for candidates: in the rendered payload the bytes  *)
(* of the non-guaranteed skills never exceed max_bytes minus the bytes of  *)
(* the guaranteed skills, and when the guaranteed bytes alone exceed       *)
(* max_bytes no candidate is included.                                     *)
(***************************************************************************)
GuaranteedNames ==
    {n \in CatalogNames(rin.skills) :
        n \in rin.opts.pinned \/ n \in rin.opts.preload_terms}

RECURSIVE PayloadBytes(_, _)
PayloadBytes(payload, names) ==
    IF payload = <<>> THEN 0
    ELSE (IF payload[1].name \in names THEN ItemBytes(payload[1]) ELSE 0)
         + PayloadBytes(Tail(payload), names)

C4_CandidateBudget ==
    rendered =>
        LET g == PayloadBytes(rout.payload, GuaranteedNames)
            c == PayloadBytes(rout.payload, Names \ GuaranteedNames) IN
        /\ g <= rin.opts.max_bytes => c <= rin.opts.max_bytes - g
        /\ g > rin.opts.max_bytes =>
              (c = 0 /\ rout.matched \subseteq GuaranteedNames)

(* Guaranteed content, one candidate that fits and one that does not. *)
C4_Witness ==
    /\ rendered
    /\ GuaranteedNames # {}
    /\ rout.matched \ GuaranteedNames # {}
    /\ CatalogNames(rin.skills) \ rout.matched # {}

(***************************************************************************)
(* C5. Effective pin set: the pin set an invocation hands to the renderer  *)
(* is the union of the manual pins, the pins of SKRILLS_PINNED and, when   *)
(* auto-pin is enabled, the auto-pins derived from the history it loaded.  *)
(***************************************************************************)
C5_EffectivePinsUnion ==
    \A p \in Procs :
        pc[p] = "rendered" =>
            inv[p].effective_pins =
                inv[p].manual_pins
                \cup EnvPins(skrills_pinned)
                \cup (IF inv[p].auto_pin
                      THEN auto_pin_from_history(inv[p].history) ELSE {})

(***************************************************************************)
(* C6. Manual pins persist until explicitly removed: a name leaves the     *)
(* persisted pin list only in a save in which the user unticked it.        *)
(***************************************************************************)
PersistedPins == unwrap_or_default(load_pinned(pinnedFile), {})

C6_ManualPinsPersist ==
    [][\A n \in Names :
          (n \in PersistedPins /\ n \notin PersistedPins') => n \in deselected']_vars

(***************************************************************************)
(* C7. Every successful render appends exactly one history entry: when an  *)
(* invocation whose render succeeded finishes, the persisted history is    *)
(* the earlier one followed by one new entry that holds matchedNames in    *)
(* ascending order (also when nothing matched); the history changes in no  *)
(* other step, so an invocation whose render fails appends none.           *)
(***************************************************************************)
PersistedHistory == unwrap_or_default(load_history(historyFile), <<>>)

Finishes(p) == pc[p] = "rendered" /\ pc'[p] = "idle"

Ascending(skills) ==
    \A i, j \in 1..Len(skills) : i < j => NameIndex(skills[i]) < NameIndex(skills[j])

C8_LostUpdate ==
    [][\A q \in Procs :
          Finishes(q) =>
             LET old == PersistedHistory
                 new == PersistedHistory'
                 since == {i \in 1..Len(old) : old[i].ts >= inv[q].loaded} IN
             /\ new[Len(new)].ts = now
             /\ \A i \in since : \A k \in 1..Len(new) : new[k] # old[i]
             /\ (since = {} /\ Len(old) < HISTORY_LIMIT) =>
                    new = Append(old, new[Len(new)])]_vars

(* Two invocations have saved; the file holds the entry of the second only. *)
C8_Witness ==
    /\ now = 2
    /\ historyFile.kind = "valid"
    /\ Len(historyFile.data) = 1
    /\ historyFile.data[1].ts = 1

(***************************************************************************)
(* C9. Dedup uniqueness and winner: the catalog returned for a walk holds  *)
(* exactly one entry per discovered name, that entry is the match whose    *)
(* source comes earliest in the source-priority order, and every other     *)
(* match of the name is excluded from the catalog.                         *)
(***************************************************************************)
C9_DedupWinner ==
    discovered =>
        LET sk == catalog.skills IN
        /\ \A i, j \in 1..Len(sk) : sk[i].name = sk[j].name => i = j
        /\ {sk[i].name : i \in 1..Len(sk)} = {raw[i].name : i \in 1..Len(raw)}
        /\ \A i \in 1..Len(sk) :
              /\ \E k \in 1..Len(raw) : raw[k] = sk[i]
              /\ \A k \in 1..Len(raw) :
                    raw[k].name = sk[i].name =>
                        PriorityRank(sk[i].source) <= PriorityRank(raw[k].source)
        /\ \A k \in 1..Len(raw) :
              (\E i \in 1..Len(sk) : sk[i] = raw[k])
              \/ (\E d \in 1..Len(catalog.duplicates) : catalog.duplicates[d] = raw[k])

(* A name found twice, the lower-priority match first: the later one wins. *)
C9_Witness ==
    /\ discovered
    /\ \E i, j \in 1..Len(raw) :
          /\ i < j
          /\ raw[i].name = raw[j].name
          /\ PriorityRank(raw[j].source) < PriorityRank(raw[i].source)
          /\ \E k \in 1..Len(catalog.skills) : catalog.skills[k] = raw[j]
          /\ \A k \in 1..Len(catalog.skills) : catalog.skills[k] # raw[i]

(***************************************************************************)
(* C10. Determinism: the candidate order is total (of two distinct         *)
(* candidates exactly one comes before the other), and the payload and     *)
(* matchedNames of a render are the same for every order in which the      *)
(* same catalog is enumerated.                                             *)
(***************************************************************************)
Reorderings(n) ==
    {p \in [1..n -> 1..n] : \A i, j \in 1..n : p[i] = p[j] => i = j}

C11_NothingSurfaced ==
    (/\ rendered
     /\ rin.opts.prompt = ""
     /\ rin.opts.pinned = {}
     /\ rin.opts.preload_terms \cap CatalogNames(rin.skills) = {})
    => (rout.payload = <<>> /\ rout.matched = {})

(***************************************************************************)
(* C12. Auto-pin window: auto_pin_from_history returns exactly the names   *)
(* that occur at least AUTO_PIN_MIN_HITS times in the last AUTO_PIN_WINDOW *)
(* entries; a name all of whose occurrences lie in older entries is never  *)
(* returned, however often it occurs there, and a history shorter than the *)
(* window is counted in full.                                              *)
(***************************************************************************)
OccurrencesIn(history, from, skill) ==
    Cardinality(UNION {{<<i, j>> : j \in {k \in 1..Len(history[i].skills) :
                                            history[i].skills[k] = skill}} :
                       i \in from..Len(history)})

C12_AutoPinWindow ==
    applied =>
        \A s \in Names :
            /\ s \in returned <=>
                  OccurrencesIn(mem, Max(1, Len(mem) - AUTO_PIN_WINDOW + 1), s)
                      >= AUTO_PIN_MIN_HITS
            /\ (\A i \in 1..Len(mem) :
                    s \in Range(mem[i].skills) => i <= Len(mem) - AUTO_PIN_WINDOW)
                => s \notin returned
            /\ Len(mem) < AUTO_PIN_WINDOW =>
                  (s \in returned <=> OccurrencesIn(mem, 1, s) >= AUTO_PIN_MIN_HITS)

(* A name in every entry older than the window and in none of the window. *)
C12_Witness ==
    /\ applied
    /\ Len(mem) >= AUTO_PIN_WINDOW + AUTO_PIN_MIN_HITS
    /\ \A i \in 1..Len(mem) :
          ("a" \in Range(mem[i].skills)) <=> (i <= Len(mem) - AUTO_PIN_WINDOW)
    /\ "a" \notin returned

(***************************************************************************)
(* C13. Environment-seeded pins are session-only: load_pinned_with_defaults*)
(* returns the persisted pins together with the names of SKRILLS_PINNED    *)
(* and leaves the pinned file as it was; a name enters the persisted pin   *)
(* list only in a save in which the user ticked it, so no name is saved    *)
(* because it came from the environment.                                   *)
(***************************************************************************)
C13_EnvPinsSessionOnly ==
    [][/\ session'.loads # session.loads =>
             /\ pinnedFile' = pinnedFile
             /\ load_pinned(pinnedFile).ok =>
                    /\ session'.pins.ok
                    /\ session'.pins.val = PersistedPins \cup EnvPins(skrills_pinned)
       /\ \A n \in Names :
             (n \notin PersistedPins /\ n \in PersistedPins') => n \in ticked']_vars

(* A session holds the environment's pin b, a later save with b listed and
   not ticked leaves b out of the file. *)
C13_Witness ==
    /\ session.loads > 0
    /\ session.pins.ok
    /\ "b" \in session.pins.val
    /\ "b" \in EnvPins(skrills_pinned)
    /\ pinnedFile.kind = "valid"
    /\ Range(pinnedFile.data) = {"a"}
    /\ ticked = {"a"}

(***************************************************************************)
(* C14. Malformed persisted state falls back to the default: with an       *)
(* unparsable pinned file or history file an emit_autoload invocation      *)
(* still renders, with no manual pins or an empty history; with an         *)
(* unparsable flag file env_auto_pin_default goes on with false; with an   *)
(* unparsable overrides file RuntimeOverrides::load succeeds with the      *)
(* default overrides.                                                      *)
(***************************************************************************)
C14_MalformedFallsBack ==
    /\ (got.fn = "env_auto_pin_default" /\ got.seen.kind = "malformed")
           => got.result = Ok(FALSE)
    /\ (got.fn = "RuntimeOverrides_load" /\ got.seen.kind = "malformed")
           => got.result = Ok(RuntimeOverrides_default)
    /\ pc[1] = "rendered" =>
           /\ pinnedFile.kind = "malformed" => inv[1].manual_pins = {}
           /\ historyFile.kind = "malformed" => inv[1].history = <<>>
           /\ (pinnedFile.kind = "malformed" /\ historyFile.kind = "malformed")
                  => inv[1].effective_pins = {}
    /\ (pc[1] = "idle" /\ now < MaxRuns
          /\ (pinnedFile.kind = "malformed" \/ historyFile.kind = "malformed"))
           => ENABLED (EmitBegin(1) /\ pc'[1] = "rendered")

(* Every store unparsable: an invocation has rendered and the overrides
   were loaded. *)
C14_Witness ==
    /\ pc[1] = "rendered"
    /\ pinnedFile.kind = "malformed"
    /\ historyFile.kind = "malformed"
    /\ autoPinFile.kind = "malformed"
    /\ got.fn = "RuntimeOverrides_load"
    /\ got.seen.kind = "malformed"
    /\ got.result.ok

(***************************************************************************)
(* C15. Missing state file equals default: with no pinned file load_pinned *)
(* returns Ok of the empty set, with no flag file load_auto_pin_flag       *)
(* returns Ok(false), with no history file load_history returns Ok of the  *)
(* empty list, and none of the calls creates a file.                       *)
(***************************************************************************)
C15_MissingIsDefault ==
    [][got'.calls # got.calls =>
          /\ pinnedFile' = pinnedFile
          /\ autoPinFile' = autoPinFile
          /\ historyFile' = historyFile
          /\ (got'.fn = "load_pinned" /\ pinnedFile.kind = "missing")
                 => got'.result = Ok({})
          /\ (got'.fn = "load_auto_pin_flag" /\ autoPinFile.kind = "missing")
                 => got'.result = Ok(FALSE)
          /\ (got'.fn = "load_history" /\ historyFile.kind = "missing")
                 => got'.result = Ok(<<>>)]_vars

(* No file at all, and the flag was loaded after another call. *)
C15_Witness ==
    /\ got.calls = 2
    /\ got.fn = "load_auto_pin_flag"
    /\ got.result = Ok(FALSE)
    /\ autoPinFile.kind = "missing"
    /\ pinnedFile.kind = "missing"
    /\ historyFile.kind = "missing"

(***************************************************************************)
(* C16. Runtime-override cache, first load wins: a runtime_overrides_cached*)
(* call that finds the cache empty caches the value it returns; every      *)
(* later call returns the cached value and leaves the cache as it is,      *)
(* whatever the overrides file holds by then; the cached value changes     *)
(* only by reset_runtime_cache_for_tests emptying the cache.               *)
(***************************************************************************)
CachedCallStep ==
    got'.calls # got.calls /\ got'.fn = "runtime_overrides_cached"

C16_FirstLoadWins ==
    [][/\ (CachedCallStep /\ RUNTIME_CACHE.some) =>
             (got'.result = Ok(RUNTIME_CACHE.val) /\ RUNTIME_CACHE' = RUNTIME_CACHE)
       /\ (CachedCallStep /\ ~RUNTIME_CACHE.some) =>
             RUNTIME_CACHE' = Some(got'.result.val)
       /\ (RUNTIME_CACHE.some /\ RUNTIME_CACHE' # RUNTIME_CACHE) =>
             ~RUNTIME_CACHE'.some]_vars

(* A later call found a valid file with other content than what it returned. *)
C16_Witness ==
    /\ got.fn = "runtime_overrides_cached"
    /\ got.calls >= 2
    /\ got.seen.kind = "valid"
    /\ got.result # Ok(got.seen.data)
    /\ RUNTIME_CACHE.some
    /\ got.result = Ok(RUNTIME_CACHE.val)

(***************************************************************************)
(* C17. Selection is independent of render mode: for the catalog, pins,    *)
(* verdicts and byte budget of a render, matchedNames is the same under    *)
(* Dual, ManifestOnly and ContentOnly, with minimal_manifest set or unset. *)
(***************************************************************************)
C17_SelectionIgnoresMode ==
    rendered =>
        \A mode \in RenderModes, minimal \in BOOLEAN :
            render_autoload(rin.skills,
                [rin.opts EXCEPT !.render_mode = mode,
                                 !.minimal_manifest = minimal]).matched
                = rout.matched

(***************************************************************************)
(* C18 as stated: sync_from_claude copies a source SKILL.md, counting it   *)
(* in copied, exactly when the destination is absent or its content hash   *)
(* differs, and otherwise leaves the destination untouched and counts it   *)
(* in skipped; after a successful sync every source skill file has a       *)
(* destination with identical content, so a second sync with an unchanged  *)
(* source copies nothing.                                                  *)
(***************************************************************************)
SyncCall == syncReport'.runs = syncReport.runs + 1

SourceSkills(root) == {p \in SkillFiles : root.files[p] # Absent}

HashDiffers(S) ==
    {p \in S : mirrorRoot[p] = Absent
               \/ hash_file(mirrorRoot[p]) # hash_file(claudeRoot.files[p])}

(* What a successful call did to the skill files S, and to nothing else. *)
SyncedExactly(S) ==
    LET report == syncReport'.result.val
        changed == HashDiffers(S)
    IN /\ report.copied = Cardinality(changed)
       /\ report.skipped = Cardinality(S \ changed)
       /\ Len(report.copied_names) = report.copied
       /\ Range(report.copied_names) = {ParentName(p) : p \in changed}
       /\ \A p \in S : mirrorRoot'[p] = claudeRoot.files[p]
       /\ \A p \in SyncPaths \ changed : mirrorRoot'[p] = mirrorRoot[p]

(* The call follows a successful one that found the same source files. *)
SecondSync ==
    /\ syncReport.runs > 0
    /\ syncReport.result.ok
    /\ syncReport.found = claudeRoot.files

C18_EverySourceSkill ==
    [][(SyncCall /\ syncReport'.result.ok) =>
          /\ SyncedExactly(SourceSkills(claudeRoot))
          /\ SecondSync => syncReport'.result.val.copied = 0]_vars

(***************************************************************************)
(* C18, amended: the statement holds of the skill files the walk yields;   *)
(* a SKILL.md the walk cannot read is neither copied nor counted, and the  *)
(* call still succeeds.  A second successful sync, with the same files     *)
(* yielded as by the successful sync before it, copies nothing.            *)
(***************************************************************************)
C18_MirrorSync ==
    [][(SyncCall /\ syncReport'.result.ok) =>
          /\ SyncedExactly(Walked(claudeRoot) \cap SkillFiles)
          /\ (SecondSync /\ syncReport.walked = Walked(claudeRoot))
                => syncReport'.result.val.copied = 0]_vars

C18_Witness ==
    /\ syncReport.runs = 2
    /\ syncReport.result.ok
    /\ syncReport.result.val = SyncReport(0, 2, <<>>)
    /\ syncReport.walked = SyncPaths
    /\ mirrorRoot["x/SKILL.md"] = "v2"
    /\ mirrorRoot["y/SKILL.md"] = "v1"
    /\ mirrorRoot["x/README.md"] = Absent

(***************************************************************************)
(* C19: the rank emitted for a skill is the 1-based position of its source *)
(* label in the fixed source-priority list, and len(order)+1 when the      *)
(* label is not in that list; hence every rank lies in 1..len(order)+1 and *)
(* a skill of the first-priority source has rank 1.                        *)
(***************************************************************************)
C19_PriorityRank ==
    xml.rendered =>
        /\ Len(xml.elements) = Len(xmlSkills)
        /\ \A i \in 1..Len(xmlSkills) :
              LET label == xmlSkills[i].source
                  rank == xml.elements[i].priority_rank
                  order == priority_labels
              IN /\ \A k \in 1..Len(order) : order[k] = label => rank = k
                 /\ (\A k \in 1..Len(order) : order[k] # label) => rank = Len(order) + 1
                 /\ rank \in 1..(Len(order) + 1)
                 /\ label = order[1] => rank = 1

C19_Witness ==
    /\ xml.rendered
    /\ Len(xml.elements) = 2
    /\ xmlSkills[1].source = priority_labels[1]
    /\ xml.elements[1].priority_rank = 1
    /\ xmlSkills[2].source \notin Sources
    /\ xml.elements[2].priority_rank = Len(priority_labels) + 1

(***************************************************************************)
(* C20: SyncOrchestrator::sync with dry_run = true never calls a write     *)
(* operation of the target adapter, so the target state is unchanged,      *)
(* while the report of a call that returns Ok counts the items that would  *)
(* be written: the number of source commands and of source MCP servers,    *)
(* for the sections the parameters enable.                                 *)
(***************************************************************************)
C20_DryRunDoesNotWrite ==
    [][(orchReport'.runs = orchReport.runs + 1 /\ orchReport'.params.dry_run) =>
          /\ Range(orchReport'.calls) \cap WriteOps = {}
          /\ targetAgent' = targetAgent
          /\ orchReport'.result.ok =>
                LET report == orchReport'.result.val
                    params == orchReport'.params
                IN /\ report.commands.written =
                        (IF params.sync_commands
                         THEN Cardinality(sourceAgent.commands) ELSE 0)
                   /\ report.mcp_servers.written =
                        (IF params.sync_mcp_servers
                         THEN Cardinality(sourceAgent.mcp_servers) ELSE 0)]_vars

C20_Witness ==
    /\ orchReport.runs = 2
    /\ orchReport.params = SyncParams(TRUE, TRUE, TRUE, TRUE)
    /\ orchReport.calls = <<"read_commands", "read_mcp_servers", "read_preferences">>
    /\ orchReport.result.ok
    /\ orchReport.result.val.commands.written = 2
    /\ orchReport.result.val.mcp_servers.written = 1
    /\ sourceAgent.commands = {"c1", "c2"}
    /\ targetAgent.commands = {"c1", "c2"}
    /\ targetAgent.mcp_servers = {}

(***************************************************************************)
(* C22: for each of commands, MCP servers and preferences whose flag in    *)
(* SyncParams is false, SyncOrchestrator::sync neither reads that category *)
(* from the source nor writes it to the target, and the report's counters  *)
(* for it stay zero; enabled categories are processed in the fixed order   *)
(* commands, MCP servers, preferences.                                     *)
(***************************************************************************)
Categories == <<"commands", "mcp_servers", "preferences">>

CategoryEnabled(params, field) ==
    IF field = "commands" THEN params.sync_commands
    ELSE IF field = "mcp_servers" THEN params.sync_mcp_servers
    ELSE params.sync_preferences

(* The place of an adapter operation in the order read commands, write
   commands, read MCP servers, write MCP servers, read preferences, write
   preferences. *)
OpIndex(op) ==
    CHOOSE n \in 1..6 :
        \E k \in 1..3 : \/ op = "read_" \o Categories[k] /\ n = 2 * k - 1
                        \/ op = "write_" \o Categories[k] /\ n = 2 * k

OrchestratorCall == orchReport'.runs = orchReport.runs + 1

C22_DisabledUntouched ==
    [][OrchestratorCall =>
          LET params == orchReport'.params
              calls == orchReport'.calls
          IN /\ \A k \in 1..3 :
                   ~CategoryEnabled(params, Categories[k]) =>
                      /\ "read_" \o Categories[k] \notin Range(calls)
                      /\ "write_" \o Categories[k] \notin Range(calls)
                      /\ targetAgent'[Categories[k]] = targetAgent[Categories[k]]
                      /\ orchReport'.result.ok =>
                            orchReport'.result.val[Categories[k]] = WriteReport_default
             /\ \A i, j \in 1..Len(calls) : i < j => OpIndex(calls[i]) < OpIndex(calls[j])
             /\ orchReport'.result.ok =>
                   \A k \in 1..3 :
                      CategoryEnabled(params, Categories[k]) =>
                         "read_" \o Categories[k] \in Range(calls)]_vars

C22_Witness ==
    /\ orchReport.runs = 1
    /\ orchReport.params = SyncParams(FALSE, TRUE, FALSE, TRUE)
    /\ orchReport.stores
    /\ orchReport.calls =
          <<"read_commands", "write_commands", "read_preferences", "write_preferences">>
    /\ orchReport.result.ok
    /\ orchReport.result.val.commands.written = 2
    /\ orchReport.result.val.mcp_servers.written = 0
    /\ sourceAgent.mcp_servers = {"s1"}
    /\ targetAgent.mcp_servers = {}
    /\ targetAgent.commands = {"c1", "c2"}

(***************************************************************************)
(* C28: when reading or writing a later category fails, sync returns the   *)
(* error without a report while the writes already made to the target for  *)
(* earlier categories remain applied; report.success is true in every      *)
(* report that sync returns.                                               *)
(***************************************************************************)
(* The write operations of a call that completed before it returned. *)
CompletedWrites(calls, ok) ==
    {calls[i] : i \in {j \in 1..Len(calls) : ok \/ j < Len(calls)}} \cap WriteOps

C28_NotAtomic ==
    [][OrchestratorCall =>
          LET calls == orchReport'.calls
              ok == orchReport'.result.ok
          IN /\ ok => orchReport'.result.val.success
             /\ ~ok => Len(calls) > 0
             /\ \A k \in 1..3 :
                   LET field == Categories[k] IN
                   targetAgent'[field] =
                      IF "write_" \o field \in CompletedWrites(calls, ok)
                      THEN AdapterWrite(field, targetAgent[field], sourceAgent[field],
                                        orchReport'.stores).holding
                      ELSE targetAgent[field]]_vars

C28_Witness ==
    /\ orchReport.runs = 1
    /\ ~orchReport.result.ok
    /\ orchReport.stores
    /\ orchReport.calls =
          <<"read_commands", "write_commands", "read_mcp_servers", "write_mcp_servers">>
    /\ sourceAgent.commands = {"c1", "c2"}
    /\ sourceAgent.mcp_servers = {"s1"}
    /\ targetAgent.commands = {"c1", "c2"}
    /\ targetAgent.mcp_servers = {}

(***************************************************************************)
(* C27: RuntimeOverrides::load returns Ok with the default value when the  *)
(* overrides file is missing, unreadable or malformed, so the first        *)
(* runtime_overrides_cached call always fills the cache, and a file        *)
(* created or repaired later is not observed by any later call in that     *)
(* process until the cache is reset.                                       *)
(***************************************************************************)
LoadCallStep ==
    got'.calls # got.calls /\ got'.fn = "RuntimeOverrides_load"

C27_DefaultIsCached ==
    [][/\ (LoadCallStep /\ overridesFile.kind # "valid") =>
             got'.result = Ok(RuntimeOverrides_default)
       /\ (CachedCallStep /\ ~RUNTIME_CACHE.some) =>
             /\ RUNTIME_CACHE'.some
             /\ overridesFile.kind # "valid" =>
                   (/\ RUNTIME_CACHE' = Some(RuntimeOverrides_default)
                    /\ got'.result = Ok(RuntimeOverrides_default))
       /\ (CachedCallStep /\ RUNTIME_CACHE = Some(RuntimeOverrides_default)) =>
             (/\ got'.result = Ok(RuntimeOverrides_default)
              /\ RUNTIME_CACHE' = RUNTIME_CACHE)]_vars

(* A later call found a valid file with settings, and returned the default
   cached before. *)
C27_Witness ==
    /\ got.fn = "runtime_overrides_cached"
    /\ got.calls >= 2
    /\ got.seen.kind = "valid"
    /\ got.seen.data # RuntimeOverrides_default
    /\ got.result = Ok(RuntimeOverrides_default)
    /\ RUNTIME_CACHE = Some(RuntimeOverrides_default)

(***************************************************************************)
(* C25: emit_autoload writes only the history file: it never writes the    *)
(* persisted pinned list or the auto-pin flag, so auto-pins are never      *)
(* turned into manual pins, and the auto-pin set used for a render is      *)
(* computed from the history as it was before that render's own entry was  *)
(* appended.                                                               *)
(***************************************************************************)
EmitStep(p) == pc'[p] # pc[p]

C25_EmitWritesOnlyHistory ==
    [][\A p \in Procs :
          EmitStep(p) =>
             /\ pinnedFile' = pinnedFile
             /\ autoPinFile' = autoPinFile
             /\ overridesFile' = overridesFile
             /\ ~Finishes(p) => historyFile' = historyFile
             /\ pc'[p] = "rendered" =>
                   inv'[p].effective_pins =
                      unwrap_or_default(load_pinned(pinnedFile), {})
                      \cup (IF inv'[p].auto_pin
                            THEN auto_pin_from_history(PersistedHistory) ELSE {})
             /\ Finishes(p) =>
                   inv[p].effective_pins \ inv[p].manual_pins
                      \subseteq auto_pin_from_history(inv[p].history)]_vars

(* An invocation has finished whose entry holds an auto-pinned skill, and
   no pinned list was ever written. *)
C25_Witness ==
    /\ pc[1] = "idle"
    /\ pinnedFile.kind = "missing"
    /\ historyFile.kind = "valid"
    /\ Len(historyFile.data) = 3
    /\ "a" \in auto_pin_from_history(SubSeq(historyFile.data, 1, 2))
    /\ historyFile.data[3].skills = <<"a">>

C24_AutoPinsSustain ==
    [][\A p \in Procs :
          /\ (Finishes(p) /\ inv[p].auto_pin) =>
                \A s \in auto_pin_from_history(inv[p].history) \cap inv[p].catalog :
                    /\ s \in inv[p].matched
                    /\ s \in auto_pin_from_history(PersistedHistory')
          /\ (pc'[p] = "rendered" /\ pc[p] # "rendered" /\ inv'[p].auto_pin) =>
                auto_pin_from_history(PersistedHistory) \subseteq inv'[p].effective_pins
          /\ pc'[p] = "failed" =>
                auto_pin_from_history(PersistedHistory')
                   = auto_pin_from_history(PersistedHistory)]_vars

(* The two hits that made a an auto-pin have left the window, and a is
   still an auto-pin through the entries of the two invocations since. *)
C24_Witness ==
    /\ pc[1] = "idle"
    /\ historyFile.kind = "valid"
    /\ Len(historyFile.data) = AUTO_PIN_WINDOW + 2
    /\ historyFile.data[1].skills = <<"a">>
    /\ historyFile.data[2].skills = <<"a">>
    /\ \A i \in 3..AUTO_PIN_WINDOW : historyFile.data[i].skills = <<>>
    /\ historyFile.data[AUTO_PIN_WINDOW + 1].skills = <<"a">>
    /\ historyFile.data[AUTO_PIN_WINDOW + 2].skills = <<"a">>
    /\ "a" \in auto_pin_from_history(historyFile.data)

CountOf(text, token) == Cardinality({i \in 1..Len(text) : text[i] = token})

(* The section from its start marker to its end marker. *)
MarkedSection(xml_text) ==
    <<AGENTS_SECTION_START, Newline, xml_text, Newline, AGENTS_SECTION_END>>

C21_SectionUpdate ==
    [][agentsSync'.calls = agentsSync.calls + 1 =>
          LET missing == ~agentsFile.exists
              old == agentsFile.text
              new == agentsFile'.text
              xml_text == agentsSync'.xml
              start == Find(old, AGENTS_SECTION_START)
              end == Find(old, AGENTS_SECTION_END)
          IN /\ agentsSync'.outcome = "ok"
             /\ CountOf(new, AGENTS_SECTION_START) = 1
             /\ CountOf(new, AGENTS_SECTION_END) = 1
             /\ missing =>
                   new = AGENTS_TEXT \o <<Newline, Newline>> \o MarkedSection(xml_text)
                         \o <<Newline>>
             /\ (~missing /\ start.some /\ end.some) =>
                   \E s, e \in 1..Len(old) :
                      /\ old[s] = AGENTS_SECTION_START
                      /\ old[e] = AGENTS_SECTION_END
                      /\ new = SubSeq(old, 1, s - 1) \o MarkedSection(xml_text)
                               \o SubSeq(old, e + 1, Len(old))
             /\ (~missing /\ ~(start.some /\ end.some)) =>
                   new = old \o <<Newline, Newline>> \o MarkedSection(xml_text)
                         \o <<Newline>>]_vars

====
